---- MODULE Spec2Model ----
(***************************************************************************)
(* LeapOCR Python SDK: the job lifecycle orchestration layer.              *)
(*                                                                         *)
(*   src/src/leapocr/client.py        LeapOCRClient (submission, status,   *)
(*                                    result, the two polling loops)       *)
(*   src/src/leapocr/services/ocr.py  OCRService (process_document, the    *)
(*                                    group batch and the semaphore batch) *)
(*   src/src/leapocr/types.py         Job, JobResult, JobStatus            *)
(*   src/src/leapocr/exceptions.py    the error classes                    *)
(*                                                                         *)
(* The generated HTTP transport (leapocr.gen.openapi_client) and the       *)
(* remote service are the environment: every transport call draws its      *)
(* answer from a small set of responses.                                   *)
(*                                                                         *)
(* Python values are modelled as records.  None is the integer 0 where an  *)
(* int is expected (a status code, a timeout: the code tests both with     *)
(* truthiness, which 0 and None share) and the empty string where a str is *)
(* expected.                                                               *)
(***************************************************************************)
EXTENDS Integers, Sequences, FiniteSets, TLC

(***************************************************************************)
(* Bounds of the model.                                                    *)
(***************************************************************************)
\* the largest number of sources handed to a batch
MaxSources == 3
\* the largest max_concurrent handed to a batch
MaxCap == 2
\* status queries one wait may issue before the model stops following it
MaxPolls == 3
\* the longest a status query may take, in clock ticks
MaxLatency == 1
\* the largest timeout (in clock ticks) a caller configures
MaxTimeout == 2

(***************************************************************************)
(* types.py                                                                *)
(***************************************************************************)
\* class JobStatus(str, Enum): the five member values
JobStatusValues == {"pending", "processing", "completed", "failed", "cancelled"}

\* str.lower() on the status strings the service is modelled to send
Lower(s) ==
    CASE s = "COMPLETED" -> "completed"
      [] s = "Pending"   -> "pending"
      [] s = "PENDING"   -> "pending"
      [] s = "Archived"  -> "archived"
      [] OTHER           -> s

\* a faulty __post_init__ that keeps the lower-cased string when it is not a
\* member value
post_init_status_lowered(s) ==
    IF Lower(s) \in JobStatusValues
        THEN [enum |-> TRUE, s |-> Lower(s)]
        ELSE [enum |-> FALSE, s |-> Lower(s)]

\* __post_init__ of Job / JobStatusInfo / JobResult: JobStatus(status.lower()),
\* and on ValueError the string is kept as it was.  A status value is the pair
\* (is it a JobStatus member, its text).
post_init_status(s) ==
    IF Lower(s) \in JobStatusValues
        THEN [enum |-> TRUE, s |-> Lower(s)]
        ELSE [enum |-> FALSE, s |-> s]

\* JobStatus.PENDING, JobStatus.FAILED, ... as status values
Member(s) == [enum |-> TRUE, s |-> s]

\* A job id: a real one is issued by the service for its k-th job; the batch
\* makes f"error_{i}" for the item at (0-based) position i.
RealId(k) == <<"job", k>>
ErrorId(i) == <<"error", i>>

\* JobStatusInfo(job_id=..., status=...)
JobStatusInfo(job_id, status) ==
    [type |-> "JobStatusInfo", job_id |-> job_id, status |-> post_init_status(status)]

\* Job(id=..., status=...)
Job(id, status) == [type |-> "Job", id |-> id, status |-> post_init_status(status)]

\* JobResult(job_id=..., status=..., data=..., error_message=...); data is
\* modelled by whether it is populated, error_message by the parts of its
\* text (<<>> = None)
JobResult(job_id, status, data, error_message) ==
    [type |-> "JobResult", job_id |-> job_id, status |-> post_init_status(status),
     data |-> data, error_message |-> error_message]

(***************************************************************************)
(* exceptions.py: an exception is its class, its message and status_code.  *)
(***************************************************************************)
\* None for a status code
NoStatus == 0

\* the classes of exceptions.py
LeapOCRErrors ==
    {"LeapOCRClientError", "LeapOCRServerError", "LeapOCRAuthenticationError",
     "LeapOCRValidationError", "LeapOCRRateLimitError", "LeapOCRTimeoutError",
     "LeapOCRNotFoundError", "LeapOCRUploadError", "LeapOCRJobError",
     "LeapOCRConfigurationError"}

\* the subclasses whose __init__ has a status_code parameter
TakesStatusCode ==
    {"LeapOCRClientError", "LeapOCRServerError", "LeapOCRAuthenticationError",
     "LeapOCRValidationError", "LeapOCRRateLimitError", "LeapOCRNotFoundError"}

\* self.error_type as the __init__ of class cls leaves it; only the base
\* class takes it as an argument ("": None)
error_type_of(cls, error_type) ==
    CASE cls = "LeapOCRClientError" ->
             (IF error_type = "" THEN "client_error" ELSE error_type)
      [] cls = "LeapOCRServerError" -> "server_error"
      [] cls = "LeapOCRAuthenticationError" -> "authentication_error"
      [] cls = "LeapOCRValidationError" -> "validation_error"
      [] cls = "LeapOCRRateLimitError" -> "rate_limit_error"
      [] cls = "LeapOCRTimeoutError" -> "timeout_error"
      [] cls = "LeapOCRNotFoundError" -> "not_found_error"
      [] cls = "LeapOCRUploadError" -> "upload_error"
      [] cls = "LeapOCRJobError" -> "job_error"
      [] OTHER -> "configuration_error"

\* cls(message, error_type=..., status_code=...)
NewError(cls, msg, error_type, status_code) ==
    [cls |-> cls, msg |-> msg, error_type |-> error_type_of(cls, error_type),
     status_code |-> IF cls \in TakesStatusCode THEN status_code ELSE NoStatus]

\* cls(message): status_code defaults to None, and no raise in client.py
\* passes one
Error(cls, msg) == NewError(cls, msg, "", NoStatus)

\* a faulty is_retryable that answers by self.error_type
is_retryable_by_type(e) ==
    e.error_type \in {"server_error", "rate_limit_error", "timeout_error", "upload_error"}

\* is_retryable(): every class returns a constant, True in
\* LeapOCRServerError, LeapOCRRateLimitError, LeapOCRTimeoutError and
\* LeapOCRUploadError, False in the base class and the other subclasses
is_retryable(e) ==
    e.cls \in {"LeapOCRServerError", "LeapOCRRateLimitError", "LeapOCRTimeoutError",
               "LeapOCRUploadError"}

\* LeapOCRClientError.__str__ (no subclass overrides it); a message is a
\* sequence of its parts
str(e) == <<"LeapOCRClientError: ">> \o e.msg

(***************************************************************************)
(* Outcome of a Python call: it returns a value or raises an exception.    *)
(***************************************************************************)
Return(v) == [kind |-> "return", val |-> v]
Raise(e) == [kind |-> "raise", val |-> e]
Pending == [kind |-> "none", val |-> 0]

(***************************************************************************)
(* The transport's answers.                                                *)
(***************************************************************************)
\* a response object: response.data carries job_id, status, data, error_message
Ok(status, data, error_message) ==
    [tag |-> "ok", status |-> status, data |-> data,
     error_message |-> error_message, code |-> NoStatus]
\* ApiException(status=code)
ApiException(code) ==
    [tag |-> "ApiException", status |-> "", data |-> FALSE,
     error_message |-> <<>>, code |-> code]
\* any other exception of the transport (a network failure, a malformed
\* response), or of the byte transfer (httpx.HTTPStatusError)
\* (error_message holds str(e))
OtherException ==
    [tag |-> "Exception", status |-> "", data |-> FALSE,
     error_message |-> <<"connection reset">>, code |-> NoStatus]
\* the transport gave up on a request that took too long (a read timeout)
RequestTimeout ==
    [tag |-> "Exception", status |-> "", data |-> FALSE,
     error_message |-> <<"timed out">>, code |-> NoStatus]

\* the status codes the transport is modelled to fail with
TransportCodes == {NoStatus, 401, 404, 503}

TransportErrors == {ApiException(c) : c \in TransportCodes} \cup {OtherException}

(***************************************************************************)
(* client.py: the operations of LeapOCRClient, as functions of the         *)
(* transport's answer.                                                     *)
(***************************************************************************)
\* a faulty _handle_api_error whose server range is 500 <= status_code <= 600
handle_api_error_600(code) ==
    IF code \in {401, 403} THEN Error("LeapOCRAuthenticationError", <<"Invalid API key">>)
    ELSE IF code = 404 THEN Error("LeapOCRNotFoundError", <<"Resource not found">>)
    ELSE IF code = 422 THEN Error("LeapOCRValidationError", <<"Validation error: ">>)
    ELSE IF code = 429 THEN Error("LeapOCRRateLimitError", <<"Rate limit exceeded">>)
    ELSE IF code # NoStatus /\ 500 <= code /\ code <= 600 THEN
        Error("LeapOCRServerError", <<"Server error: ">>)
    ELSE Error("LeapOCRClientError", <<"API error: ">>)

\* _handle_api_error: the exception raised for ApiException(status=code)
handle_api_error(code) ==
    IF code = 401 THEN
        Error("LeapOCRAuthenticationError", <<"Invalid API key or authentication failed">>)
    ELSE IF code = 403 THEN
        Error("LeapOCRAuthenticationError", <<"Access forbidden - check API key permissions">>)
    ELSE IF code = 404 THEN
        Error("LeapOCRNotFoundError", <<"Resource not found">>)
    ELSE IF code = 422 THEN
        Error("LeapOCRValidationError", <<"Validation error: ">>)
    ELSE IF code = 429 THEN
        Error("LeapOCRRateLimitError", <<"Rate limit exceeded">>)
    ELSE IF code # NoStatus /\ 500 <= code /\ code < 600 THEN
        Error("LeapOCRServerError", <<"Server error: ">>)
    ELSE
        Error("LeapOCRClientError", <<"API error: ">>)

\* a faulty try/except in which the typed error of _handle_api_error is
\* caught by `except Exception` and wrapped again
try_except_rewrap(resp, what, rest) ==
    IF resp.tag = "ApiException" THEN
        Raise(Error("LeapOCRClientError", <<what>> \o handle_api_error(resp.code).msg))
    ELSE IF resp.tag = "Exception" THEN
        Raise(Error("LeapOCRClientError", <<what>> \o resp.error_message))
    ELSE IF rest.kind = "raise" THEN
        Raise(Error("LeapOCRClientError", <<what, rest.val>>))
    ELSE rest

\* a faulty try/except that reports a request that timed out as
\* LeapOCRTimeoutError
try_except_timeout(resp, what, rest) ==
    IF resp.tag = "ApiException" THEN Raise(handle_api_error(resp.code))
    ELSE IF resp.tag = "Exception" THEN
        Raise(Error(IF resp = RequestTimeout THEN "LeapOCRTimeoutError"
                                             ELSE "LeapOCRClientError",
                    <<what>> \o resp.error_message))
    ELSE IF rest.kind = "raise" THEN
        Raise(Error("LeapOCRClientError", <<what, rest.val>>))
    ELSE rest

\* try: ... except ApiException as e: self._handle_api_error(e)
\*          except Exception as e: raise LeapOCRClientError(f"{what}: {e}")
\* around a body whose transport call answered resp and whose remaining
\* statements have the outcome rest ("TypeError" etc. when they raise)
try_except(resp, what, rest) ==
    IF resp.tag = "ApiException" THEN Raise(handle_api_error(resp.code))
    ELSE IF resp.tag = "Exception" THEN
        Raise(Error("LeapOCRClientError", <<what>> \o resp.error_message))
    ELSE IF rest.kind = "raise" THEN
        Raise(Error("LeapOCRClientError", <<what, rest.val>>))
    ELSE rest

\* max_retries: int = 3, the default of LeapOCRClient.__init__
DefaultMaxRetries == 3

\* a faulty transport call that sends the request again when the first one
\* failed and the client was configured with retries
request_retrying(answers, retries) ==
    IF answers[1].tag # "ok" /\ retries > 0
        THEN [resp |-> answers[2], sent |-> 2]
        ELSE [resp |-> answers[1], sent |-> 1]

\* a transport call of an operation, self._gen_client.<method>(...): the
\* statement stands in no loop and self.max_retries is read nowhere, so one
\* request is sent and its answer, the first of those the service would give
\* to successive requests, is the call's
request(answers, retries) == [resp |-> answers[1], sent |-> 1]

\* process_url: the transport answers the submission of a URL, the service having issued job number k
process_url(resp, k) ==
    try_except(resp, "Unexpected error processing URL: ",
        Return(Job(RealId(k), IF resp.status = "" THEN "pending" ELSE resp.status)))

\* process_url_async: the same statements, written out a second time
process_url_async(resp, k) ==
    try_except(resp, "Unexpected error processing URL async: ",
        Return(Job(RealId(k), IF resp.status = "" THEN "pending" ELSE resp.status)))

\* a faulty upload_file that reads the file before it asks for the upload
\* target
upload_file_steps_read_first(presign, transfer) ==
    IF transfer = "unreadable" THEN <<"read">>
    ELSE IF presign.tag # "ok" THEN <<"read", "presign">>
    ELSE <<"read", "presign", "put">>

\* what upload_file does, in order, when the presign request is answered
\* presign and the transfer goes as transfer says: the presign request
\* (presigned_upload_with_http_info), the read of the file, the PUT of the
\* bytes.  An exception ends the list.
upload_file_steps(presign, transfer) ==
    IF presign.tag # "ok" THEN <<"presign">>
    ELSE IF transfer = "unreadable" THEN <<"presign", "read">>
    ELSE <<"presign", "read", "put">>

\* the service has created a job: it answered a presign request
job_created(presign, steps) ==
    presign.tag = "ok" /\ \E k \in DOMAIN steps : steps[k] = "presign"

\* a faulty upload_file that leaves out upload_response.raise_for_status()
upload_file_unchecked(presign, transfer, k) ==
    try_except(presign, "Unexpected error uploading file: ",
        IF transfer \in {"ok", "http_error"}
            THEN Return([type |-> "FileUploadResult", job_id |-> RealId(k),
                         status |-> "uploaded"])
            ELSE Raise(transfer))

\* upload_file: the presigned-target request answered presign (job number k),
\* then the file is read and PUT to the target; transfer is "ok",
\* "unreadable" when open/read raises, "http_error" when the PUT is answered
\* with a non-success status and raise_for_status() raises
\* httpx.HTTPStatusError
upload_file(presign, transfer, k) ==
    try_except(presign, "Unexpected error uploading file: ",
        IF transfer = "ok"
            THEN Return([type |-> "FileUploadResult", job_id |-> RealId(k),
                         status |-> "uploaded"])
            ELSE Raise(transfer))

\* JobStatus(job_id=..., status=..., progress=..., ...): JobStatus is the
\* Enum of types.py, and calling an Enum class with keyword arguments is a
\* TypeError (the dataclass of that shape is JobStatusInfo)
JobStatus(job_id, status) == Raise("TypeError")

\* get_job_status
get_job_status(resp, job_id) ==
    try_except(resp, "Unexpected error getting job status: ",
        JobStatus(job_id, resp.status))

\* get_job_status replaced by a test double, as the tests of the polling loop
\* do with @patch('leapocr.client.LeapOCRClient.get_job_status'): it returns
\* Mock(status=...) and never raises
get_job_status_double(resp, job_id) == Return([job_id |-> job_id, status |-> resp.status])

\* get_job_result
get_job_result(resp, job_id) ==
    try_except(resp, "Unexpected error getting job result: ",
        Return(JobResult(job_id, resp.status, resp.data, resp.error_message)))

(***************************************************************************)
(* The polling loops of client.py.  A frame is one call of wait_for_result *)
(* or wait_for_result_async: where it stands (pc), the job it waits for,   *)
(* its start_time, what it did so far and how it ended.                    *)
(*   pc: "idle" not called yet, "poll" at the top of `while True`,         *)
(*       "fetch" about to call get_job_result, "sleep" about to sleep,     *)
(*       "asleep" suspended in asyncio.sleep, "done" returned or raised.   *)
(*   log: the requests the call sent to the transport, in order.           *)
(*   round: 1 for the first wait for the job, 2 for a later one.           *)
(***************************************************************************)
NoAnswer ==
    [tag |-> "none", status |-> "", data |-> FALSE, error_message |-> <<>>, code |-> NoStatus]

IdleFrame ==
    [pc |-> "idle", job |-> <<>>, start |-> 0, wake |-> 0, polls |-> 0, sleeps |-> 0,
     fetches |-> 0, last |-> NoAnswer, out |-> Pending, log |-> <<>>, round |-> 1]

\* the statuses at which both loops leave: ["completed", "failed", "cancelled"]
TerminalList == {"completed", "failed", "cancelled"}

\* LeapOCRTimeoutError(f"Job {job_id} did not complete within {timeout} seconds")
TimeoutError(job, to) ==
    Error("LeapOCRTimeoutError",
          <<"Job ", ToString(job[2]), " did not complete within ", ToString(to), " seconds">>)

\* a faulty loop that backs off: each sleep is longer than the one before
sleep_time_backoff(interval, slept) == interval * (slept + 1)

\* the argument of time.sleep / asyncio.sleep in the iteration that follows
\* `slept` sleeps of the call: poll_interval as the caller gave it
sleep_time(interval, slept) == interval

\* a faulty entry that waits for the first job the service issued, whatever
\* id it was called with
wait_for_result_enter_first(f, job, t) ==
    [f EXCEPT !.pc = "poll", !.job = RealId(1), !.start = t]

\* wait_for_result, entry: start_time = time.time()
wait_for_result_enter(f, job, t) == [f EXCEPT !.pc = "poll", !.job = job, !.start = t]

\* a faulty wait_for_result: "processing" has slipped into the list of
\* statuses at which the loop leaves
wait_for_result_iter_early(f, st, t, to) ==
    IF st.kind = "raise" THEN [f EXCEPT !.pc = "done", !.out = st]
    ELSE IF st.val.status \in TerminalList \cup {"processing"} THEN [f EXCEPT !.pc = "fetch"]
    ELSE IF to # 0 /\ (t - f.start) > to THEN
        [f EXCEPT !.pc = "done", !.out = Raise(TimeoutError(f.job, to))]
    ELSE [f EXCEPT !.pc = "sleep"]

\* a faulty wait_for_result that asks the service to cancel the job it gives
\* up on
wait_for_result_iter_cancel(f, st, t, to) ==
    IF st.kind = "raise" THEN [f EXCEPT !.pc = "done", !.out = st]
    ELSE IF st.val.status \in TerminalList THEN [f EXCEPT !.pc = "fetch"]
    ELSE IF to # 0 /\ (t - f.start) > to THEN
        [f EXCEPT !.pc = "done", !.log = Append(@, "cancel"),
                  !.out = Raise(TimeoutError(f.job, to))]
    ELSE [f EXCEPT !.pc = "sleep"]

\* a faulty wait_for_result that fetches the result when the deadline has
\* passed, whatever the status
wait_for_result_iter_fetch_late(f, st, t, to) ==
    IF st.kind = "raise" THEN [f EXCEPT !.pc = "done", !.out = st]
    ELSE IF st.val.status \in TerminalList THEN [f EXCEPT !.pc = "fetch"]
    ELSE IF to # 0 /\ (t - f.start) > to THEN [f EXCEPT !.pc = "fetch"]
    ELSE [f EXCEPT !.pc = "sleep"]

\* a faulty wait_for_result that leaves the loop at every status other than
\* pending and processing
wait_for_result_iter_unknown(f, st, t, to) ==
    IF st.kind = "raise" THEN [f EXCEPT !.pc = "done", !.out = st]
    ELSE IF st.val.status \notin {"pending", "processing"} THEN [f EXCEPT !.pc = "fetch"]
    ELSE IF to # 0 /\ (t - f.start) > to THEN
        [f EXCEPT !.pc = "done", !.out = Raise(TimeoutError(f.job, to))]
    ELSE [f EXCEPT !.pc = "sleep"]

\* a faulty wait_for_result that takes a failed status query for a
\* non-terminal status and goes on
wait_for_result_iter_swallow(f, st, t, to) ==
    IF st.kind = "raise" THEN
        IF to # 0 /\ (t - f.start) > to
            THEN [f EXCEPT !.pc = "done", !.out = Raise(TimeoutError(f.job, to))]
            ELSE [f EXCEPT !.pc = "sleep"]
    ELSE IF st.val.status \in TerminalList THEN [f EXCEPT !.pc = "fetch"]
    ELSE IF to # 0 /\ (t - f.start) > to THEN
        [f EXCEPT !.pc = "done", !.out = Raise(TimeoutError(f.job, to))]
    ELSE [f EXCEPT !.pc = "sleep"]

\* wait_for_result, one iteration from the outcome st of get_job_status to the
\* sleep; t is time.time() at the timeout test, to the timeout (0: None or 0)
wait_for_result_iter(f, st, t, to) ==
    IF st.kind = "raise" THEN [f EXCEPT !.pc = "done", !.out = st]
    ELSE IF st.val.status \in TerminalList THEN [f EXCEPT !.pc = "fetch"]
    ELSE IF to # 0 /\ (t - f.start) > to THEN
        [f EXCEPT !.pc = "done", !.out = Raise(TimeoutError(f.job, to))]
    ELSE [f EXCEPT !.pc = "sleep"]

\* wait_for_result: return self.get_job_result(job_id)
wait_for_result_return(f, res) ==
    [f EXCEPT !.pc = "done", !.fetches = @ + 1, !.log = Append(@, "result"), !.out = res]

\* wait_for_result_async, entry: start_time = asyncio.get_event_loop().time()
wait_for_result_async_enter(f, job, t) == [f EXCEPT !.pc = "poll", !.job = job, !.start = t]

\* a faulty wait_for_result_async: the second copy of the loop tests the
\* timeout with >= where the first has >
wait_for_result_async_iter_ge(f, st, t, to) ==
    IF st.kind = "raise" THEN [f EXCEPT !.pc = "done", !.out = st]
    ELSE IF st.val.status \in TerminalList THEN [f EXCEPT !.pc = "fetch"]
    ELSE IF to # 0 /\ (t - f.start) >= to THEN
        [f EXCEPT !.pc = "done", !.out = Raise(TimeoutError(f.job, to))]
    ELSE [f EXCEPT !.pc = "sleep"]

\* wait_for_result_async, one iteration (the loop is written out a second
\* time in client.py)
wait_for_result_async_iter(f, st, t, to) ==
    IF st.kind = "raise" THEN [f EXCEPT !.pc = "done", !.out = st]
    ELSE IF st.val.status \in TerminalList THEN [f EXCEPT !.pc = "fetch"]
    ELSE IF to # 0 /\ (t - f.start) > to THEN
        [f EXCEPT !.pc = "done", !.out = Raise(TimeoutError(f.job, to))]
    ELSE [f EXCEPT !.pc = "sleep"]

\* wait_for_result_async: return self.get_job_result(job_id)
wait_for_result_async_return(f, res) ==
    [f EXCEPT !.pc = "done", !.fetches = @ + 1, !.log = Append(@, "result"), !.out = res]

(***************************************************************************)
(* services/ocr.py: OCRService.                                            *)
(***************************************************************************)
\* the kinds of source process_document tells apart: a str starting with
\* "http://" or "https://", and everything else (a path, a file object)
SourceKinds == {"url", "file"}

\* a faulty choice of the deadline that looks at options.timeout first
effective_timeout_options_first(to, opt) == IF opt # 0 THEN opt ELSE to

\* a faulty choice of the deadline that forgets options.timeout
effective_timeout_arg_only(to, opt) == to

\* timeout or options.timeout
effective_timeout(to, options_timeout) == IF to # 0 THEN to ELSE options_timeout

\* a value of an optional field (data, pages, error_message): None, the
\* empty value of its type ({}, [], ""), or a non-empty value
Optionals == {"None", "empty", "full"}

\* the data of a result: as above, and "text" for a non-empty dict that has
\* the key "text" ("full" has not)
DataValues == Optionals \cup {"text"}

\* bool(v) of such a value: None and the empty value are falsy
truthy(v) == v \notin {"None", "empty"}

\* the value under the key "text" in the data of the job's result
TextOf(job_id) == <<"text of", job_id>>

\* result.data.get("text", "")
data_get_text(result) ==
    IF result.data = "text" THEN TextOf(result.job_id) ELSE <<>>

\* a faulty extract_text that hands out the text without looking whether
\* the result has data
extract_text_unchecked(result) ==
    IF result.kind = "raise" THEN result
    ELSE Return(data_get_text(result.val))

\* extract_text after its call of process_document ended with the outcome
\* result: an exception goes on to the caller
extract_text(result) ==
    IF result.kind = "raise" THEN result
    ELSE IF result.val.type = "JobResult" /\ truthy(result.val.data)
        THEN Return(data_get_text(result.val))
    ELSE Raise(Error("LeapOCRClientError", <<"Failed to extract text from document">>))

\* A source handed to process_document: a str, a Path or a file-like object
\* (type), and for the first two the text, cut in two parts: how it begins
\* and the rest.
NoSource == [type |-> "none", text |-> <<>>]

\* str(source): the text of a str; pathlib has collapsed the "//" of a Path
str_of(source) ==
    IF source.type = "Path"
        THEN CASE source.text[1] = "https://" -> <<"https:/", source.text[2]>>
               [] source.text[1] = "http://"  -> <<"http:/", source.text[2]>>
               [] OTHER                        -> source.text
        ELSE source.text

\* source_str.startswith(("http://", "https://"))
startswith_http(text) == text[1] \in {"http://", "https://"}

\* a faulty routing that takes every str or Path for a URL
source_kind_any_str(source) ==
    IF source.type \in {"str", "Path"} THEN "url" ELSE "file"

\* process_document: the branch taken, _process_url ("url") or _process_file
\* ("file")
source_kind(source) ==
    IF source.type \in {"str", "Path"}
        THEN IF startswith_http(str_of(source)) THEN "url" ELSE "file"
        ELSE "file"

\* process_document up to the job handle: _process_url / _process_file before
\* their `if wait_for_result`.  c is what the transport answered (c.resp) and
\* how the byte transfer went (c.transfer); k is the number of the job the
\* service issues.  The outcome carries the id later calls use.
process_document(kind, c, k) ==
    IF kind = "url" THEN process_url(c.resp, k)
    ELSE LET u == upload_file(c.resp, c.transfer, k)
         IN IF u.kind = "raise" THEN u ELSE Return(Job(u.val.job_id, "pending"))

\* process_document_async up to the job handle: _process_url_async /
\* _process_file_async (upload_file is the blocking one in both)
process_document_async(kind, c, k) ==
    IF kind = "url" THEN process_url_async(c.resp, k)
    ELSE LET u == upload_file(c.resp, c.transfer, k)
         IN IF u.kind = "raise" THEN u ELSE Return(Job(u.val.job_id, "pending"))

\* a faulty slice, sources[i : i + max_concurrent + 1]
group_size_over(n, i, cap) == IF n - i < cap + 1 THEN n - i ELSE cap + 1

\* len(sources[i : i + max_concurrent])
group_size(n, i, cap) == IF n - i < cap THEN n - i ELSE cap

\* a faulty acquire that never makes its caller wait
semaphore_acquire_always(v) == [got |-> TRUE, value |-> v - 1]

\* asyncio.Semaphore.acquire on a semaphore of value v: does the caller go
\* on at once, and the value left
semaphore_acquire(v) == [got |-> v > 0, value |-> IF v > 0 THEN v - 1 ELSE v]

\* a faulty exit: acquire() and release() written by hand around the body
\* without try/finally, so that a raise skips the release
async_with_exit_on_return(v, out) == IF out.kind = "raise" THEN v ELSE v + 1

\* `async with semaphore:` left with the outcome out of its body:
\* __aexit__ releases whatever the outcome
async_with_exit(v, out) == v + 1

\* a faulty conversion loop that leaves the exception object in the list
batch_async_result_keep(i, out) == out.val

\* batch_process_async after gather(..., return_exceptions=True): the entry
\* for the item at 0-based position i whose task ended with outcome out
batch_async_result(i, out) ==
    IF out.kind = "raise"
        THEN JobResult(ErrorId(i), "failed", FALSE, str(out.val))
        ELSE out.val

(***************************************************************************)
(* State.                                                                  *)
(***************************************************************************)
VARIABLES
    op,             \* the call under way:
                    \*   "wait": wait_for_result as frame 1 and
                    \*     wait_for_result_async as frame 2 (two executions,
                    \*     each with its own clock, against the same answers)
                    \*   "batch": batch_process
                    \*   "batch_async": batch_process_async
                    \*   "call": one call of one operation of the client
                    \*   "document": process_document
                    \*   "extract_text": extract_text
    doubled,        \* TRUE: get_job_status is the test double
    timeout,        \* the timeout argument, in ticks (0: None or 0)
    options_timeout,\* batch: options.timeout, in ticks (0: None or 0)
    poll_interval,  \* poll_interval (batch: options.poll_interval), in ticks
    sources,        \* batch: the kinds of the sources, in input order
    max_concurrent, \* batch: the concurrency cap
    wait_for_all,   \* batch: the flag
    max_retries,    \* the client's max_retries setting
    source,         \* document: the source handed to process_document
    wait_for_result, \* document: the flag
    now,            \* the clock of each execution: time.time() and the
                    \* event loop's time()
    jobs,           \* the service: jobs[k] is the position (1-based) of the
                    \* source whose submission made it issue job k
    fr,             \* the frames of the waits (batch: frame i waits for item i)
    running,        \* the coroutine the event loop is running (0: none)
    script,         \* op = "wait": the answers frame 1 got to status queries
                    \* that frame 2 has not issued yet
    fetched,        \* op = "wait": the answer to the result fetch, once given
    b,              \* batch: the locals of batch_process / batch_process_async
    task,           \* batch_async: the tasks gather() made of process_single
    sem,            \* batch_async: the value of the semaphore
    results,        \* batch: the list returned (once b.pc = "returned")
    call            \* op = "call": the one call of a client operation under
                    \* way, what the transport answered and how it ended

cfg == <<op, doubled, timeout, options_timeout, poll_interval, sources, max_concurrent,
         wait_for_all, max_retries, source, wait_for_result>>

vars == <<cfg, now, jobs, fr, running, script, fetched, b, task, sem, results, call>>

\* the calls that go through process_document
DocOps == {"document", "extract_text"}

\* options.format: ProcessOptions() has ProcessFormat.STRUCTURED, and
\* extract_text makes ProcessOptions(format=ProcessFormat.TEXT)
options_format == IF op = "extract_text" THEN "text" ELSE "structured"

\* the status texts the service (or the double) is modelled to report
StatusTexts ==
    IF op = "wait" THEN JobStatusValues \cup {"archived"}
    ELSE IF op = "document" THEN {"pending", "processing", "completed", "failed"}
    ELSE IF op = "extract_text" THEN {"processing", "completed", "failed"}
    ELSE {"processing", "completed"}

\* how a status query is modelled to fail
StatusErrors ==
    IF doubled THEN {}
    ELSE IF op = "wait" THEN TransportErrors
    ELSE {ApiException(404)}

\* what one status query can be answered with, and how long it takes
StatusAnswers ==
    {[resp |-> r, lat |-> l] :
        r \in {Ok(s, FALSE, <<>>) : s \in StatusTexts} \cup StatusErrors,
        l \in IF op = "wait" THEN 0..MaxLatency ELSE {0}}

\* what the result fetch can be answered with
ResultAnswers ==
    IF op = "wait"
        THEN {Ok("completed", TRUE, <<>>), Ok("failed", FALSE, <<"boom">>),
              Ok("archived", FALSE, <<>>)} \cup TransportErrors
    ELSE IF op = "extract_text"
        THEN {Ok("completed", d, <<>>) : d \in DataValues}
             \cup {Ok("failed", "None", <<"boom">>), ApiException(503)}
        ELSE {Ok("completed", TRUE, <<>>), ApiException(503)}

\* what a submission can be answered with, and how the byte transfer goes
SubmitAnswers(kind) ==
    {[resp |-> r, transfer |-> "ok"] :
        r \in {Ok("pending", FALSE, <<>>), ApiException(401)}}
    \cup (IF kind = "file"
            THEN {[resp |-> Ok("pending", FALSE, <<>>), transfer |-> "http_error"]}
            ELSE {})

\* self.get_job_status, as bound in the client under test
GetStatus(resp, job_id) ==
    IF doubled THEN get_job_status_double(resp, job_id) ELSE get_job_status(resp, job_id)

\* the timeout the wait of frame i is called with
TimeoutOf(i) ==
    IF op = "wait" THEN timeout ELSE effective_timeout(timeout, options_timeout)

\* the execution frame i belongs to
World(i) == IF op = "wait" THEN i ELSE 1

\* the clock frame i reads
Clock(i) == now[World(i)]

\* the answers the next status query of frame i may get: in op "wait" the
\* service answers the n-th query of frame 2 as it answered that of frame 1
StatusAnswersFor(i) ==
    IF op = "wait" /\ i = 2 /\ script # <<>> THEN {Head(script)} ELSE StatusAnswers

\* op "wait": frame 1 asks first, and is at most one query ahead
MayAsk(i) ==
    \/ op # "wait"
    \/ i = 1 /\ script = <<>>
    \/ i = 2 /\ (script # <<>> \/ fr[1].pc \in {"fetch", "done"})

\* the answers still owed to frame 2 once frame i was given answer a
Owed(i, a) ==
    IF op # "wait" THEN script
    ELSE IF i = 2 THEN (IF script = <<>> THEN <<>> ELSE Tail(script))
    ELSE IF fr[2].pc \in {"fetch", "done"} THEN <<>>
    ELSE <<a>>

ResultAnswersFor(i) ==
    IF op = "wait" /\ fetched.tag # "none" THEN {fetched} ELSE ResultAnswers

Frames == DOMAIN fr

N == Len(sources)

\* batch_process: the (1-based) position of the item the loops stand at
Cur == b.i + b.k + 1

\* the frame whose blocking call is under way
SyncActive(i) ==
    \/ op = "wait" /\ i = 1
    \/ op \in DocOps /\ call.pc = "waiting" /\ i = 1
    \/ op = "batch" /\ b.pc = "wait" /\ i = Cur

\* the frame of the coroutine the event loop is running
AsyncActive(i) ==
    /\ running = i
    /\ op = "batch_async" => task[i].pc = "waiting"

(***************************************************************************)
(* Actions of the blocking loop, wait_for_result.                          *)
(***************************************************************************)
\* status = self.get_job_status(job_id) and the tests that follow it
SyncPoll(i) ==
    /\ SyncActive(i) /\ fr[i].pc = "poll" /\ fr[i].polls < MaxPolls /\ MayAsk(i)
    /\ \E a \in StatusAnswersFor(i) :
          LET q  == request(<<a.resp, a.resp>>, max_retries)
              f1 == [fr[i] EXCEPT !.polls = @ + q.sent, !.last = q.resp,
                                  !.log = @ \o [k \in 1..q.sent |-> "status"]]
              st == GetStatus(q.resp, fr[i].job)
          IN /\ now' = [now EXCEPT ![World(i)] = @ + a.lat]
             /\ fr' = [fr EXCEPT ![i] =
                          wait_for_result_iter(f1, st, Clock(i) + a.lat, TimeoutOf(i))]
             /\ script' = Owed(i, a)
    /\ UNCHANGED <<cfg, call, jobs, running, fetched, b, task, sem, results>>

\* return self.get_job_result(job_id)
SyncFetch(i) ==
    /\ SyncActive(i) /\ fr[i].pc = "fetch"
    /\ \E r \in ResultAnswersFor(i) :
          /\ fr' = [fr EXCEPT ![i] = wait_for_result_return(@, get_job_result(r, fr[i].job))]
          /\ fetched' = IF op = "wait" THEN r ELSE fetched
    /\ UNCHANGED <<cfg, call, now, jobs, running, script, b, task, sem, results>>

\* time.sleep(poll_interval)
SyncSleep(i) ==
    /\ SyncActive(i) /\ fr[i].pc = "sleep"
    /\ now' = [now EXCEPT ![World(i)] = @ + sleep_time(poll_interval, fr[i].sleeps)]
    /\ fr' = [fr EXCEPT ![i].pc = "poll", ![i].sleeps = @ + 1]
    /\ UNCHANGED <<cfg, call, jobs, running, script, fetched, b, task, sem, results>>

(***************************************************************************)
(* Actions of the cooperative loop, wait_for_result_async.                 *)
(***************************************************************************)
AsyncPoll(i) ==
    /\ AsyncActive(i) /\ fr[i].pc = "poll" /\ fr[i].polls < MaxPolls /\ MayAsk(i)
    /\ \E a \in StatusAnswersFor(i) :
          LET q  == request(<<a.resp, a.resp>>, max_retries)
              f1 == [fr[i] EXCEPT !.polls = @ + q.sent, !.last = q.resp,
                                  !.log = @ \o [k \in 1..q.sent |-> "status"]]
              st == GetStatus(q.resp, fr[i].job)
          IN /\ now' = [now EXCEPT ![World(i)] = @ + a.lat]
             /\ fr' = [fr EXCEPT ![i] =
                          wait_for_result_async_iter(f1, st, Clock(i) + a.lat, TimeoutOf(i))]
             /\ script' = Owed(i, a)
    /\ UNCHANGED <<cfg, call, jobs, running, fetched, b, task, sem, results>>

AsyncFetch(i) ==
    /\ AsyncActive(i) /\ fr[i].pc = "fetch"
    /\ \E r \in ResultAnswersFor(i) :
          /\ fr' = [fr EXCEPT ![i] =
                       wait_for_result_async_return(@, get_job_result(r, fr[i].job))]
          /\ fetched' = IF op = "wait" THEN r ELSE fetched
    /\ UNCHANGED <<cfg, call, now, jobs, running, script, b, task, sem, results>>

\* await asyncio.sleep(poll_interval): the coroutine is suspended until the
\* loop's clock reaches now + poll_interval, and the loop is free
AsyncSleep(i) ==
    /\ AsyncActive(i) /\ fr[i].pc = "sleep"
    /\ fr' = [fr EXCEPT ![i].pc = "asleep",
                        ![i].wake = Clock(i) + sleep_time(poll_interval, fr[i].sleeps),
                        ![i].sleeps = @ + 1]
    /\ running' = 0
    /\ UNCHANGED <<cfg, call, now, jobs, script, fetched, b, task, sem, results>>

\* the coroutines whose timer is due
Due == {i \in Frames : fr[i].pc = "asleep" /\ fr[i].wake <= Clock(i)}

\* batch_async: the tasks that have not run yet (the loop runs them in the
\* order gather() made them) and the first waiter of a free semaphore
Startable == {i \in DOMAIN task : task[i].pc = "new"}
Wakeable == {i \in DOMAIN task : task[i].pc = "blocked" /\ sem > 0}

\* with nothing to run the loop blocks until its earliest timer is due
LoopIdle ==
    /\ running = 0 /\ Due = {} /\ Startable = {} /\ Wakeable = {}
    /\ \E i \in Frames :
          /\ fr[i].pc = "asleep"
          /\ \A j \in Frames : fr[j].pc = "asleep" => fr[i].wake <= fr[j].wake
          /\ now' = [now EXCEPT ![World(i)] = fr[i].wake]
    /\ UNCHANGED <<cfg, call, jobs, fr, running, script, fetched, b, task, sem, results>>

\* the timer of asyncio.sleep fires: the coroutine goes on
AsyncWake(i) ==
    /\ running = 0 /\ i \in Due /\ Startable = {}
    /\ fr' = [fr EXCEPT ![i].pc = "poll"]
    /\ running' = i
    /\ UNCHANGED <<cfg, call, now, jobs, script, fetched, b, task, sem, results>>

(***************************************************************************)
(* op = "wait": wait_for_result(job 1) and wait_for_result_async(job 1),   *)
(* each called at time 0 of its own execution.                             *)
(***************************************************************************)
WaitCall ==
    /\ op = "wait" /\ fr[1].pc = "idle"
    /\ fr' = [fr EXCEPT ![1] = wait_for_result_enter(@, RealId(1), Clock(1))]
    /\ UNCHANGED <<cfg, call, now, jobs, running, script, fetched, b, task, sem, results>>

WaitAsyncCall ==
    /\ op = "wait" /\ fr[2].pc = "idle"
    /\ fr' = [fr EXCEPT ![2] = wait_for_result_async_enter(@, RealId(1), Clock(2))]
    /\ running' = 2
    /\ UNCHANGED <<cfg, call, now, jobs, script, fetched, b, task, sem, results>>

\* the coroutine of wait_for_result_async ends
WaitAsyncEnd ==
    /\ op = "wait" /\ running = 2 /\ fr[2].pc = "done"
    /\ running' = 0
    /\ UNCHANGED <<cfg, call, now, jobs, fr, script, fetched, b, task, sem, results>>

\* both waits ended in LeapOCRTimeoutError, and the caller waits for the
\* same job again: wait_for_result(job 1) and wait_for_result_async(job 1)
\* are called a second time
WaitAgain ==
    /\ op = "wait" /\ running = 0
    /\ \A i \in 1..2 :
          /\ fr[i].pc = "done" /\ fr[i].round = 1
          /\ fr[i].out.kind = "raise" /\ fr[i].out.val.cls = "LeapOCRTimeoutError"
    /\ fr' = [i \in 1..2 |->
                 IF i = 1
                     THEN wait_for_result_enter([IdleFrame EXCEPT !.round = 2],
                                                RealId(1), Clock(1))
                     ELSE wait_for_result_async_enter([IdleFrame EXCEPT !.round = 2],
                                                      RealId(1), Clock(2))]
    /\ running' = 2
    /\ script' = <<>>
    /\ fetched' = NoAnswer
    /\ UNCHANGED <<cfg, call, now, jobs, b, task, sem, results>>

(***************************************************************************)
(* op = "batch": batch_process.                                            *)
(*   b.pc: "call" not called yet, "submit" in `for source in batch`,       *)
(*         "wait" in `for job in batch_jobs`, "returned", "raised".        *)
(*   b.i is the group's offset (the i of the outer for), b.k the position  *)
(*   the inner loop stands at.                                             *)
(***************************************************************************)
BatchLocals ==
    [pc |-> "call", i |-> 0, k |-> 0, batch_jobs |-> <<>>, batch_results |-> <<>>,
     err |-> Pending]

\* a faulty batch_process whose `return results` is indented into the outer
\* for: it returns after the first group
batch_next_group_early(l, n, cap) == [l EXCEPT !.pc = "returned"]

\* the outer for goes to its next group, or the function returns
batch_next_group(l, n, cap) ==
    IF l.i + cap < n
        THEN [l EXCEPT !.pc = "submit", !.i = @ + cap, !.k = 0,
                       !.batch_jobs = <<>>, !.batch_results = <<>>]
        ELSE [l EXCEPT !.pc = "returned"]

\* a faulty accumulation, `results = xs` for results.extend(xs)
results_replace(r, xs) == xs

\* results.extend(xs)
results_extend(r, xs) == r \o xs

\* batch_process after process_document(source, ..., wait_for_result=False)
\* ended with outcome o: batch_jobs.append(job), and after the last source of
\* the group either the waits begin or results.extend(batch_jobs); an
\* exception leaves batch_process.  l are the locals, r is results.
batch_submit_step(l, r, o, n, cap, wfa) ==
    LET bj == Append(l.batch_jobs, o.val)
    IN IF o.kind = "raise" THEN
           [l |-> [l EXCEPT !.pc = "raised", !.err = o], r |-> r]
       ELSE IF l.k + 1 < group_size(n, l.i, cap) THEN
           [l |-> [l EXCEPT !.k = @ + 1, !.batch_jobs = bj], r |-> r]
       ELSE IF wfa THEN
           [l |-> [l EXCEPT !.pc = "wait", !.k = 0, !.batch_jobs = bj], r |-> r]
       ELSE
           [l |-> batch_next_group([l EXCEPT !.batch_jobs = bj], n, cap),
            r |-> results_extend(r, bj)]

\* a faulty wait loop that swallows the exception of a wait
\* (try: ... except Exception: continue)
batch_wait_step_skip(l, r, o, n, cap) ==
    LET br == IF o.kind = "raise" THEN l.batch_results ELSE Append(l.batch_results, o.val)
    IN IF l.k + 1 < Len(l.batch_jobs) THEN
           [l |-> [l EXCEPT !.k = @ + 1, !.batch_results = br], r |-> r]
       ELSE
           [l |-> batch_next_group([l EXCEPT !.batch_results = br], n, cap),
            r |-> r \o br]

\* batch_process after self.client.wait_for_result(job.id, ...) ended with
\* outcome o: batch_results.append(result), and after the last job of the
\* group results.extend(batch_results); an exception leaves batch_process
batch_wait_step(l, r, o, n, cap) ==
    LET br == Append(l.batch_results, o.val)
    IN IF o.kind = "raise" THEN
           [l |-> [l EXCEPT !.pc = "raised", !.err = o], r |-> r]
       ELSE IF l.k + 1 < Len(l.batch_jobs) THEN
           [l |-> [l EXCEPT !.k = @ + 1, !.batch_results = br], r |-> r]
       ELSE
           [l |-> batch_next_group([l EXCEPT !.batch_results = br], n, cap),
            r |-> results_extend(r, br)]

\* batch_process run to its end from the loops' state s = [l, r], the
\* submission of the item at position j having the outcome subs[j] and the
\* wait for its job the outcome waits[j]
RECURSIVE batch_process_run(_, _, _, _, _, _)
batch_process_run(s, subs, waits, n, cap, wfa) ==
    IF s.l.pc = "submit" THEN
        batch_process_run(batch_submit_step(s.l, s.r, subs[s.l.i + s.l.k + 1], n, cap, wfa),
                          subs, waits, n, cap, wfa)
    ELSE IF s.l.pc = "wait" THEN
        batch_process_run(batch_wait_step(s.l, s.r, waits[s.l.i + s.l.k + 1], n, cap),
                          subs, waits, n, cap, wfa)
    ELSE s

\* batch_process(sources, options, max_concurrent, wait_for_all) as a
\* function of what the service does for each item
batch_process(subs, waits, n, cap, wfa) ==
    batch_process_run(
        [l |-> [BatchLocals EXCEPT !.pc = IF n = 0 THEN "returned" ELSE "submit"], r |-> <<>>],
        subs, waits, n, cap, wfa)

\* results = []; for i in range(0, len(sources), max_concurrent):
BatchCall ==
    /\ op = "batch" /\ b.pc = "call"
    /\ b' = IF N = 0 THEN [b EXCEPT !.pc = "returned"] ELSE [b EXCEPT !.pc = "submit"]
    /\ results' = <<>>
    /\ UNCHANGED <<cfg, call, now, jobs, fr, running, script, fetched, task, sem>>

\* job = self.process_document(source, options, wait_for_result=False)
\* and what the loop does with it
BatchSubmit ==
    /\ op = "batch" /\ b.pc = "submit"
    /\ \E c \in SubmitAnswers(sources[Cur]) :
          LET o == process_document(sources[Cur], c, Len(jobs) + 1)
              s == batch_submit_step(b, results, o, N, max_concurrent, wait_for_all)
          IN /\ jobs' = IF c.resp.tag = "ok" THEN Append(jobs, Cur) ELSE jobs
             /\ b' = s.l
             /\ results' = s.r
    /\ UNCHANGED <<cfg, call, now, fr, running, script, fetched, task, sem>>

\* result = self.client.wait_for_result(job.id, timeout=timeout or
\* options.timeout, poll_interval=options.poll_interval): the call
BatchWaitCall ==
    /\ op = "batch" /\ b.pc = "wait" /\ fr[Cur].pc = "idle"
    /\ fr' = [fr EXCEPT ![Cur] =
                 wait_for_result_enter(@, b.batch_jobs[b.k + 1].id, Clock(Cur))]
    /\ UNCHANGED <<cfg, call, now, jobs, running, script, fetched, b, task, sem, results>>

\* ... and its end, and what the loop does with the result.  The frame of
\* the call is gone.
BatchWaitEnd ==
    /\ op = "batch" /\ b.pc = "wait" /\ fr[Cur].pc = "done"
    /\ LET s == batch_wait_step(b, results, fr[Cur].out, N, max_concurrent)
       IN /\ b' = s.l
          /\ results' = s.r
    /\ fr' = [fr EXCEPT ![Cur] = IdleFrame]
    /\ UNCHANGED <<cfg, call, now, jobs, running, script, fetched, task, sem>>

(***************************************************************************)
(* op = "batch_async": batch_process_async.                                *)
(*   b.pc: "call", "gather" awaiting asyncio.gather, "returned".           *)
(*   task[i].pc: "new" made and not run yet, "blocked" in acquire,         *)
(*     "acquired" inside `async with`, before process_document_async,      *)
(*     "waiting" in wait_for_result_async (frame i), "exit" leaving the    *)
(*     `async with` with the outcome task[i].out, "finished".              *)
(*   task[i].sub is the outcome of the item's submission.                  *)
(***************************************************************************)
NewTask == [pc |-> "new", sub |-> Pending, out |-> Pending]

\* semaphore = asyncio.Semaphore(max_concurrent);
\* tasks = [process_single(source) for source in sources]; gather(*tasks)
AsyncBatchCall ==
    /\ op = "batch_async" /\ b.pc = "call"
    /\ b' = [b EXCEPT !.pc = "gather"]
    /\ sem' = max_concurrent
    /\ results' = <<>>
    /\ UNCHANGED <<cfg, call, now, jobs, fr, running, script, fetched, task>>

\* the loop runs a task for the first time: `async with semaphore` acquires
\* or blocks
TaskStart(i) ==
    /\ op = "batch_async" /\ b.pc = "gather" /\ running = 0
    /\ task[i].pc = "new" /\ \A j \in Startable : i <= j
    /\ LET a == semaphore_acquire(sem)
       IN /\ sem' = a.value
          /\ task' = [task EXCEPT ![i].pc = IF a.got THEN "acquired" ELSE "blocked"]
          /\ running' = IF a.got THEN i ELSE 0
    /\ UNCHANGED <<cfg, call, now, jobs, fr, script, fetched, b, results>>

\* a release woke the first waiter: it takes the permit and goes on
TaskWake(i) ==
    /\ op = "batch_async" /\ running = 0 /\ Startable = {}
    /\ i \in Wakeable /\ \A j \in Wakeable : i <= j
    /\ LET a == semaphore_acquire(sem)
       IN /\ sem' = a.value
          /\ task' = [task EXCEPT ![i].pc = "acquired"]
    /\ running' = i
    /\ UNCHANGED <<cfg, call, now, jobs, fr, script, fetched, b, results>>

\* return await self.process_document_async(source, options,
\*     wait_for_result=wait_for_all, timeout=timeout), up to the job handle
TaskSubmit(i) ==
    /\ op = "batch_async" /\ running = i /\ task[i].pc = "acquired"
    /\ \E c \in SubmitAnswers(sources[i]) :
          LET k == Len(jobs) + 1
              o == process_document_async(sources[i], c, k)
          IN /\ jobs' = IF c.resp.tag = "ok" THEN Append(jobs, i) ELSE jobs
             /\ IF o.kind = "return" /\ wait_for_all THEN
                    /\ task' = [task EXCEPT ![i].pc = "waiting", ![i].sub = o]
                    /\ fr' = [fr EXCEPT ![i] =
                                 wait_for_result_async_enter(@, o.val.id, Clock(i))]
                ELSE
                    /\ task' = [task EXCEPT ![i].pc = "exit", ![i].sub = o, ![i].out = o]
                    /\ fr' = fr
    /\ UNCHANGED <<cfg, call, now, running, script, fetched, b, sem, results>>

\* wait_for_result_async returned or raised; its frame is gone
TaskWaitEnd(i) ==
    /\ op = "batch_async" /\ running = i /\ task[i].pc = "waiting" /\ fr[i].pc = "done"
    /\ task' = [task EXCEPT ![i].pc = "exit", ![i].out = fr[i].out]
    /\ fr' = [fr EXCEPT ![i] = IdleFrame]
    /\ UNCHANGED <<cfg, call, now, jobs, running, script, fetched, b, sem, results>>

\* the `async with` is left and the task is done
TaskExit(i) ==
    /\ op = "batch_async" /\ running = i /\ task[i].pc = "exit"
    /\ sem' = async_with_exit(sem, task[i].out)
    /\ task' = [task EXCEPT ![i].pc = "finished"]
    /\ running' = 0
    /\ UNCHANGED <<cfg, call, now, jobs, fr, script, fetched, b, results>>

\* gather(..., return_exceptions=True) is done; the exceptions among its
\* results are replaced and the list is returned
AsyncBatchReturn ==
    /\ op = "batch_async" /\ b.pc = "gather" /\ running = 0
    /\ \A i \in DOMAIN task : task[i].pc = "finished"
    /\ results' = [i \in 1..N |-> batch_async_result(i - 1, task[i].out)]
    /\ b' = [b EXCEPT !.pc = "returned"]
    /\ UNCHANGED <<cfg, call, now, jobs, fr, running, script, fetched, task, sem>>

(***************************************************************************)
(* op = "call": one operation of LeapOCRClient is called once, for the     *)
(* service's job 1.                                                        *)
(***************************************************************************)
NoCall ==
    [pc |-> "idle", fn |-> "", via |-> "", format |-> "", first |-> NoAnswer,
     resp |-> NoAnswer, sent |-> 0, transfer |-> "ok", upload |-> <<>>, out |-> Pending]

\* what the service would answer to a second request of a call
SecondAnswers == {Ok("completed", TRUE, <<>>), ApiException(503)}

\* the status codes an ApiException is modelled to carry (NoStatus: none)
ApiCodes == {NoStatus, 400, 401, 403, 404, 422, 429, 499, 500, 503, 599, 600}

\* how a transport request is modelled to fail
CallErrors == {ApiException(c) : c \in ApiCodes} \cup {OtherException, RequestTimeout}

\* how the byte transfer of upload_file is modelled to go
Transfers == {"ok", "unreadable", "http_error"}

\* the call of operation fn ends with out: first is the answer to its first
\* transport request and q the answer it went on with and the number of
\* requests it sent
Called(fn, first, q, transfer, out) ==
    /\ call' = [pc |-> "done", fn |-> fn, via |-> "", format |-> "", first |-> first,
                resp |-> q.resp, sent |-> q.sent, transfer |-> transfer,
                upload |-> <<>>, out |-> out]
    /\ UNCHANGED <<cfg, now, jobs, fr, running, script, fetched, b, task, sem, results>>

\* a faulty map_exception without the branch for 403
map_exception_no_403(code) ==
    IF code # NoStatus THEN
        IF code = 401 THEN
            NewError("LeapOCRAuthenticationError",
                     <<"Invalid API key or authentication failed">>, "", code)
        ELSE IF code = 404 THEN
            NewError("LeapOCRNotFoundError", <<"Resource not found">>, "", code)
        ELSE IF code = 422 THEN
            NewError("LeapOCRValidationError", <<"Validation error: ">>, "", code)
        ELSE IF code = 429 THEN
            NewError("LeapOCRRateLimitError", <<"Rate limit exceeded">>, "", code)
        ELSE IF 500 <= code /\ code < 600 THEN
            NewError("LeapOCRServerError", <<"Server error: ">>, "", code)
        ELSE Error("LeapOCRClientError", <<"str(error)">>)
    ELSE Error("LeapOCRClientError", <<"str(error)">>)

\* LeapOCRExceptionMapper.map_exception(error) for an error whose status is
\* code: `if status_code:` skips the branches for a missing status (and for
\* 0), the branches return the error with status_code=status_code, and
\* every other case falls to LeapOCRClientError(str(error))
map_exception(code) ==
    IF code # NoStatus THEN
        IF code = 401 THEN
            NewError("LeapOCRAuthenticationError",
                     <<"Invalid API key or authentication failed">>, "", code)
        ELSE IF code = 403 THEN
            NewError("LeapOCRAuthenticationError",
                     <<"Access forbidden - check API key permissions">>, "", code)
        ELSE IF code = 404 THEN
            NewError("LeapOCRNotFoundError", <<"Resource not found">>, "", code)
        ELSE IF code = 422 THEN
            NewError("LeapOCRValidationError", <<"Validation error: ">>, "", code)
        ELSE IF code = 429 THEN
            NewError("LeapOCRRateLimitError", <<"Rate limit exceeded">>, "", code)
        ELSE IF 500 <= code /\ code < 600 THEN
            NewError("LeapOCRServerError", <<"Server error: ">>, "", code)
        ELSE Error("LeapOCRClientError", <<"str(error)">>)
    ELSE Error("LeapOCRClientError", <<"str(error)">>)

\* LeapOCRExceptionMapper.map_exception(e)
CallMapException ==
    /\ op = "call" /\ call.pc = "idle"
    /\ \E c \in ApiCodes :
          Called("map_exception", ApiException(c), [resp |-> ApiException(c), sent |-> 0],
                 "ok", Return(map_exception(c)))

\* self._handle_api_error(e)
CallHandleApiError ==
    /\ op = "call" /\ call.pc = "idle"
    /\ \E c \in ApiCodes :
          Called("_handle_api_error", ApiException(c), [resp |-> ApiException(c), sent |-> 0],
                 "ok", Raise(handle_api_error(c)))

\* client.process_url(url)
CallProcessUrl ==
    /\ op = "call" /\ call.pc = "idle"
    /\ \E r \in CallErrors \cup {Ok(s, FALSE, <<>>) : s \in {"", "pending", "Pending"}} :
       \E r2 \in SecondAnswers :
          LET q == request(<<r, r2>>, max_retries)
          IN Called("process_url", r, q, "ok", process_url(q.resp, 1))

\* await client.process_url_async(url)
CallProcessUrlAsync ==
    /\ op = "call" /\ call.pc = "idle"
    /\ \E r \in CallErrors \cup {Ok(s, FALSE, <<>>) : s \in {"", "pending", "Pending"}} :
       \E r2 \in SecondAnswers :
          LET q == request(<<r, r2>>, max_retries)
          IN Called("process_url_async", r, q, "ok", process_url_async(q.resp, 1))

\* client.upload_file(file)
CallUploadFile ==
    /\ op = "call" /\ call.pc = "idle"
    /\ \E r \in CallErrors \cup {Ok("pending", FALSE, <<>>)} : \E t \in Transfers :
       \E r2 \in SecondAnswers :
          LET q == request(<<r, r2>>, max_retries)
              s == upload_file_steps(q.resp, t)
          IN /\ call' = [pc |-> "done", fn |-> "upload_file", via |-> "", format |-> "",
                         first |-> r, resp |-> q.resp, sent |-> q.sent, transfer |-> t,
                         upload |-> s, out |-> upload_file(q.resp, t, 1)]
             /\ jobs' = IF job_created(q.resp, s) THEN <<1>> ELSE jobs
    /\ UNCHANGED <<cfg, now, fr, running, script, fetched, b, task, sem, results>>

\* client.get_job_status(job_id)
CallGetJobStatus ==
    /\ op = "call" /\ call.pc = "idle"
    /\ \E r \in CallErrors \cup {Ok(s, FALSE, <<>>) : s \in JobStatusValues} :
       \E r2 \in SecondAnswers :
          LET q == request(<<r, r2>>, max_retries)
          IN Called("get_job_status", r, q, "ok", get_job_status(q.resp, RealId(1)))

\* cls(message, ...).is_retryable(): an error is made and asked
CallIsRetryable ==
    /\ op = "call" /\ call.pc = "idle"
    /\ \E cls \in LeapOCRErrors :
       \E t \in IF cls = "LeapOCRClientError"
                    THEN {"", "server_error", "rate_limit_error", "validation_error"}
                    ELSE {""} :
       \E c \in IF cls \in TakesStatusCode THEN {NoStatus, 400, 503} ELSE {NoStatus} :
          LET e == NewError(cls, <<"Test error">>, t, c)
          IN Called("is_retryable", NoAnswer, [resp |-> NoAnswer, sent |-> 0], "ok",
                    Return([error |-> e, retryable |-> is_retryable(e)]))

\* JobResult(job_id=..., status=..., data=..., pages=..., error_message=...)
\* with all the fields validate_job_result reads
FullJobResult(job_id, status, data, pages, error_message) ==
    [type |-> "JobResult", job_id |-> job_id, status |-> post_init_status(status),
     data |-> data, pages |-> pages, error_message |-> error_message]

\* x != y of two status values: JobStatus is a str, so a member and a plain
\* string compare by their text
status_ne(x, y) == x.s # y.s

\* a faulty validate_job_result that does not look at pages
validate_job_result_data_only(job_result) ==
    IF status_ne(job_result.status, Member("completed")) THEN FALSE
    ELSE IF truthy(job_result.error_message) THEN FALSE
    ELSE IF ~truthy(job_result.data) THEN FALSE
    ELSE TRUE

\* OCRService.validate_job_result
validate_job_result(job_result) ==
    IF status_ne(job_result.status, Member("completed")) THEN FALSE
    ELSE IF truthy(job_result.error_message) THEN FALSE
    ELSE IF ~truthy(job_result.data) /\ ~truthy(job_result.pages) THEN FALSE
    ELSE TRUE

\* service.validate_job_result(JobResult(...))
CallValidateJobResult ==
    /\ op = "call" /\ call.pc = "idle"
    /\ \E s \in {"completed", "COMPLETED", "processing", "failed", "archived"} :
       \E d \in Optionals : \E pg \in Optionals : \E e \in Optionals :
          LET jr == FullJobResult(RealId(1), s, d, pg, e)
          IN Called("validate_job_result", NoAnswer, [resp |-> NoAnswer, sent |-> 0], "ok",
                    Return([job_result |-> jr, valid |-> validate_job_result(jr)]))

\* the status strings a record is modelled to be constructed with
StatusStrings ==
    JobStatusValues \cup {"COMPLETED", "Pending", "PENDING", "archived", "Archived",
                          "invalid_status", ""}

\* Job(id=..., status=s), JobStatusInfo(job_id=..., status=s) or
\* JobResult(job_id=..., status=s) is constructed
CallConstruct ==
    /\ op = "call" /\ call.pc = "idle"
    /\ \E s \in StatusStrings :
       \E made \in {Job(RealId(1), s), JobStatusInfo(RealId(1), s),
                    JobResult(RealId(1), s, FALSE, <<>>)} :
          Called("__post_init__", NoAnswer, [resp |-> NoAnswer, sent |-> 0], "ok",
                 Return([given |-> s, made |-> made]))

\* client.get_job_result(job_id)
CallGetJobResult ==
    /\ op = "call" /\ call.pc = "idle"
    /\ \E r \in CallErrors \cup {Ok("completed", TRUE, <<>>), Ok("COMPLETED", TRUE, <<>>),
                               Ok("failed", FALSE, <<"boom">>), Ok("archived", FALSE, <<>>)} :
       \E r2 \in SecondAnswers :
          LET q == request(<<r, r2>>, max_retries)
          IN Called("get_job_result", r, q, "ok", get_job_result(q.resp, RealId(1)))

(***************************************************************************)
(* op = "document": OCRService.process_document(source, options,           *)
(* wait_for_result, timeout).  call.via is the operation of the client the *)
(* branch taken submits with; frame 1 is the wait of _process_url /        *)
(* _process_file.                                                          *)
(***************************************************************************)
\* job = self.client.process_url(...) or upload_result =
\* self.client.upload_file(...), and the `if wait_for_result` after it
DocSubmit ==
    /\ op \in DocOps /\ call.pc = "idle"
    /\ LET kind == source_kind(source)
       IN \E c \in SubmitAnswers(kind) : \E r2 \in SecondAnswers :
            LET q   == request(<<c.resp, r2>>, max_retries)
                sub == process_document(kind, [resp |-> q.resp, transfer |-> c.transfer], 1)
                rec == [pc |-> "done", fn |-> "process_document",
                        via |-> IF kind = "url" THEN "process_url" ELSE "upload_file",
                        format |-> options_format,
                        first |-> c.resp, resp |-> q.resp, sent |-> q.sent,
                        transfer |-> c.transfer,
                        upload |-> IF kind = "url" THEN <<>>
                                   ELSE upload_file_steps(q.resp, c.transfer),
                        out |-> sub]
            IN /\ jobs' = IF q.resp.tag = "ok" THEN <<1>> ELSE jobs
               /\ IF sub.kind = "return" /\ wait_for_result
                     THEN /\ call' = [rec EXCEPT !.pc = "waiting", !.out = Pending]
                          /\ fr' = [fr EXCEPT ![1] =
                                       wait_for_result_enter(@, sub.val.id, Clock(1))]
                     ELSE /\ call' = rec
                          /\ fr' = fr
    /\ UNCHANGED <<cfg, now, running, script, fetched, b, task, sem, results>>

\* return self.client.wait_for_result(...): the wait has ended, and its
\* outcome is that of process_document
DocReturn ==
    /\ op \in DocOps /\ call.pc = "waiting" /\ fr[1].pc = "done"
    /\ call' = [call EXCEPT !.pc = "done", !.out = fr[1].out]
    /\ UNCHANGED <<cfg, now, jobs, fr, running, script, fetched, b, task, sem, results>>

\* op = "extract_text": OCRService.extract_text(source, timeout), after its
\* call of process_document has ended
ExtractText ==
    /\ op = "extract_text" /\ call.pc = "done" /\ call.fn = "process_document"
    /\ call' = [call EXCEPT !.fn = "extract_text", !.out = extract_text(call.out)]
    /\ UNCHANGED <<cfg, now, jobs, fr, running, script, fetched, b, task, sem, results>>

(***************************************************************************)
(* The specification.                                                      *)
(***************************************************************************)
\* the source lists handed to a batch: up to MaxSources long, URLs and files
\* in turn
SourceLists ==
    {[i \in 1..n |-> IF i % 2 = 1 THEN "url" ELSE "file"] : n \in 0..MaxSources}

\* the timeouts a batch is called with: the argument, options.timeout
BatchTimeouts == {0, 1} \X {0, 1}

\* the sources process_document is called with
SourceValues ==
    {[type |-> "str", text |-> <<p, "example.com/doc.pdf">>] :
        p \in {"http://", "https://", "HTTP://", "ftp://", "/path/to/"}}
    \cup {[type |-> "Path", text |-> <<p, "example.com/doc.pdf">>] :
             p \in {"https://", "/path/to/"}}
    \cup {[type |-> "io", text |-> <<>>]}

\* the timeouts process_document is called with: the argument,
\* options.timeout
DocTimeouts == (0..MaxTimeout) \X {0, 1}

InitDocument ==
    /\ op = "document"
    /\ source \in SourceValues
    /\ wait_for_result \in BOOLEAN
    /\ poll_interval \in 1..2
    /\ \E p \in DocTimeouts : timeout = p[1] /\ options_timeout = p[2]
    /\ sources = <<>>
    /\ max_concurrent = 1
    /\ wait_for_all = FALSE
    /\ jobs = <<>>
    /\ fr = <<IdleFrame>>
    /\ max_retries = DefaultMaxRetries

InitExtract ==
    /\ op = "extract_text"
    /\ source \in {[type |-> "str", text |-> <<"https://", "example.com/doc.pdf">>],
                   [type |-> "io", text |-> <<>>]}
    /\ wait_for_result = TRUE
    /\ poll_interval = 2
    /\ timeout \in {0, 1}
    /\ options_timeout = 0
    /\ sources = <<>>
    /\ max_concurrent = 1
    /\ wait_for_all = FALSE
    /\ jobs = <<>>
    /\ fr = <<IdleFrame>>
    /\ max_retries = DefaultMaxRetries

InitWait ==
    /\ op = "wait"
    /\ source = NoSource
    /\ wait_for_result = FALSE
    /\ timeout \in 0..MaxTimeout
    /\ poll_interval \in 0..2
    /\ options_timeout = 0
    /\ sources = <<>>
    /\ max_concurrent = 1
    /\ wait_for_all = FALSE
    /\ jobs = <<0>>
    /\ fr = [i \in 1..2 |-> IdleFrame]
    /\ max_retries = DefaultMaxRetries

InitBatch ==
    /\ op \in {"batch", "batch_async"}
    /\ source = NoSource
    /\ wait_for_result = FALSE
    /\ poll_interval = 1
    /\ \E p \in BatchTimeouts : timeout = p[1] /\ options_timeout = p[2]
    /\ sources \in SourceLists
    /\ max_concurrent \in 1..MaxCap
    /\ wait_for_all \in BOOLEAN
    /\ jobs = <<>>
    /\ fr = [i \in 1..Len(sources) |-> IdleFrame]
    /\ max_retries = DefaultMaxRetries

InitCall ==
    /\ op = "call"
    /\ source = NoSource
    /\ wait_for_result = FALSE
    /\ doubled = FALSE
    /\ timeout = 0
    /\ poll_interval = 1
    /\ options_timeout = 0
    /\ sources = <<>>
    /\ max_concurrent = 1
    /\ wait_for_all = FALSE
    /\ jobs = <<>>
    /\ fr = <<>>
    /\ max_retries \in {0, DefaultMaxRetries}

Init ==
    /\ doubled \in BOOLEAN
    /\ now = [w \in 1..2 |-> 0]
    /\ running = 0
    /\ script = <<>>
    /\ fetched = NoAnswer
    /\ b = BatchLocals
    /\ sem = 0
    /\ results = <<>>
    /\ call = NoCall
    /\ (InitWait \/ InitBatch \/ InitCall \/ InitDocument \/ InitExtract)
    /\ task = [i \in 1..Len(sources) |-> NewTask]

Next ==
    \/ WaitCall
    \/ WaitAsyncCall
    \/ WaitAsyncEnd
    \/ WaitAgain
    \/ \E i \in Frames : SyncPoll(i)
    \/ \E i \in Frames : SyncFetch(i)
    \/ \E i \in Frames : SyncSleep(i)
    \/ \E i \in Frames : AsyncPoll(i)
    \/ \E i \in Frames : AsyncFetch(i)
    \/ \E i \in Frames : AsyncSleep(i)
    \/ \E i \in Frames : AsyncWake(i)
    \/ LoopIdle
    \/ BatchCall
    \/ BatchSubmit
    \/ BatchWaitCall
    \/ BatchWaitEnd
    \/ AsyncBatchCall
    \/ \E i \in DOMAIN task : TaskStart(i)
    \/ \E i \in DOMAIN task : TaskWake(i)
    \/ \E i \in DOMAIN task : TaskSubmit(i)
    \/ \E i \in DOMAIN task : TaskWaitEnd(i)
    \/ \E i \in DOMAIN task : TaskExit(i)
    \/ AsyncBatchReturn
    \/ CallHandleApiError
    \/ CallMapException
    \/ CallProcessUrl
    \/ CallProcessUrlAsync
    \/ CallUploadFile
    \/ CallGetJobStatus
    \/ CallGetJobResult
    \/ CallIsRetryable
    \/ CallValidateJobResult
    \/ CallConstruct
    \/ DocSubmit
    \/ DocReturn
    \/ ExtractText

Spec == Init /\ [][Next]_vars

(***************************************************************************)
(* Properties of the polling loops.                                        *)
(***************************************************************************)
\* the answers of the service that report a status / a terminal status
SawStatus(f) == f.last.tag = "ok"
SawTerminal(f) == f.last.tag = "ok" /\ f.last.status \in TerminalList

\* C1: once a status query of a wait was answered with a terminal status
\* (completed, failed, cancelled) the wait issues no further status query:
\* it stands before its one result fetch, or it has made that fetch and has
\* ended.
C1_TerminalEndsPolling ==
    \A i \in Frames :
        SawTerminal(fr[i]) =>
            \/ fr[i].pc = "fetch"
            \/ fr[i].pc = "done" /\ fr[i].fetches = 1

\* C1, reached in the client as shipped: the first status query of
\* wait_for_result is answered "completed"
C1_Reached ==
    /\ op = "wait" /\ ~doubled
    /\ fr[1].polls = 1 /\ SawTerminal(fr[1])

\* C1 with get_job_status replaced by the double: the loop itself leaves on
\* a terminal status
C1_WithDouble == doubled => C1_TerminalEndsPolling

\* C2: a wait with a configured timeout whose status queries were all
\* answered with non-terminal statuses ends only by LeapOCRTimeoutError, and
\* no wait returns a result without having seen a terminal status.
C2_TimeoutOrTerminal ==
    \A i \in Frames :
        /\ (fr[i].pc = "done" /\ TimeoutOf(i) # 0 /\ SawStatus(fr[i]) /\ ~SawTerminal(fr[i]))
              => (fr[i].out.kind = "raise" /\ fr[i].out.val.cls = "LeapOCRTimeoutError")
        /\ (fr[i].pc = "done" /\ fr[i].out.kind = "return") => SawTerminal(fr[i])

\* C2, reached in the client as shipped: a wait with a timeout, its status
\* query answered "processing", has ended
C2_Reached ==
    /\ op = "wait" /\ ~doubled /\ timeout # 0
    /\ fr[1].pc = "done" /\ SawStatus(fr[1]) /\ ~SawTerminal(fr[1])

\* C2 with get_job_status replaced by the double
C2_WithDouble == doubled => C2_TimeoutOrTerminal


(***************************************************************************)
(* Properties of batch_process_async.                                      *)
(***************************************************************************)
\* the items in flight: their task holds a permit of the semaphore
InFlight == {i \in DOMAIN task : task[i].pc \in {"acquired", "waiting", "exit"}}

\* the items whose submission made the service issue a job
Submitted == {jobs[k] : k \in 1..Len(jobs)}

\* the real job ids the service has issued
IssuedIds == {RealId(k) : k \in 1..Len(jobs)}

\* the entry e of a returned list is that of the item at position i: it
\* carries the id of a job issued for source i, or (batch_process_async) the
\* synthetic id made of i's 0-based position
BelongsTo(e, i) ==
    IF e.type = "Job" THEN
        \E k \in 1..Len(jobs) : e.id = RealId(k) /\ jobs[k] = i
    ELSE
        \/ \E k \in 1..Len(jobs) : e.job_id = RealId(k) /\ jobs[k] = i
        \/ op = "batch_async" /\ e.job_id = ErrorId(i - 1)

\* C3: during batch_process_async at most max_concurrent items are in
\* flight at any moment.
C3_AtMostCapInFlight ==
    op = "batch_async" => Cardinality(InFlight) <= max_concurrent

\* C3, reached: as many items in flight as the cap allows while a further
\* item waits for a permit
C3_Reached ==
    /\ op = "batch_async"
    /\ Cardinality(InFlight) = max_concurrent
    /\ \E i \in DOMAIN task : task[i].pc = "blocked"

\* C4: the semaphore's value is the cap less the items in flight, so every
\* item that ended, by return or by raise, has given its permit back; when
\* batch_process_async has returned the value is max_concurrent again.
C4_PermitsReleased ==
    (op = "batch_async" /\ b.pc # "call") =>
        /\ sem = max_concurrent - Cardinality(InFlight)
        /\ b.pc = "returned" => sem = max_concurrent

\* C4, reached: the batch has returned, one of its items having raised and
\* another having returned
C4_Reached ==
    /\ op = "batch_async" /\ b.pc = "returned" /\ sem = max_concurrent
    /\ \E i \in DOMAIN task : task[i].out.kind = "raise"
    /\ \E i \in DOMAIN task : task[i].out.kind = "return"

\* C5: a list returned by batch_process or batch_process_async is as long as
\* sources, and its element at position i is the entry of sources[i].
C5_OrderPreserved ==
    (op \in {"batch", "batch_async"} /\ b.pc = "returned") =>
        /\ Len(results) = N
        /\ \A i \in 1..N : BelongsTo(results[i], i)

\* C5, reached: a returned list of three with an element whose job is not
\* the service's i-th, an earlier item having failed before a job was issued
C5_Reached ==
    /\ op = "batch_async" /\ b.pc = "returned" /\ N = 3
    /\ \E i \in 1..N :
          /\ results[i].type = "Job"
          /\ results[i].id # RealId(i)

GroupStart(j) == ((j - 1) \div max_concurrent) * max_concurrent

\* the positions of the group of item j
GroupOf(j) == {i \in 1..N : GroupStart(i) = GroupStart(j)}

\* C7: batch_process takes sources in consecutive groups of at most
\* max_concurrent, each item submitted once and in input order; a wait of a
\* group begins only when every item of that group has been submitted; and
\* an item is submitted only when every item of the groups before its own
\* has been submitted and, with wait_for_all, waited to its result.
C7_GroupOrder ==
    op = "batch" =>
        /\ b.i % max_concurrent = 0
        /\ Len(b.batch_jobs) <= max_concurrent
        /\ \A k \in 1..Len(jobs) : \A m \in 1..Len(jobs) : k < m => jobs[k] < jobs[m]
        /\ \A j \in 1..N : fr[j].pc # "idle" => GroupOf(j) \subseteq Submitted
        /\ \A j \in Submitted :
              /\ 1..GroupStart(j) \subseteq Submitted
              /\ wait_for_all => Len(results) >= GroupStart(j)

\* C7, reached: the third item, alone in the second group, has been
\* submitted after the first group of two was done with
C7_Reached ==
    /\ op = "batch" /\ max_concurrent = 2 /\ N = 3
    /\ b.i = 2 /\ Len(results) >= 2
    /\ 3 \in Submitted

\* batch_process has raised: the items after the one it stood at were
\* neither submitted nor waited, and the list was not returned
C8_Aborted ==
    /\ b.err.kind = "raise"
    /\ \A j \in 1..N : (j > b.i + Len(b.batch_jobs) /\ j # Cur) => j \notin Submitted
    /\ \A j \in 1..N : j > Cur => fr[j] = IdleFrame

\* C8: in batch_process a submission that the service rejected, and a wait
\* that raised, make batch_process raise that error; once it has raised it
\* takes no further step (no later item is submitted or waited and no list
\* is returned).
C8_ErrorAborts ==
    [][op = "batch" =>
          /\ b.pc # "raised"
          /\ (b.pc = "submit" /\ b' # b /\ jobs' = jobs) => b'.pc = "raised"
          /\ (b.pc = "wait" /\ fr[Cur].pc = "done" /\ fr[Cur].out.kind = "raise")
                => (b'.pc = "raised" /\ b'.err = fr[Cur].out)
          /\ b'.pc = "raised" => (results' = results /\ C8_Aborted')]_vars

\* C8, reached: batch_process has raised with items left
C8_Reached ==
    /\ op = "batch" /\ b.pc = "raised" /\ Cur < N
    /\ b.err.kind = "raise"

(***************************************************************************)
(* Properties of both batches, and of both loops.                          *)
(***************************************************************************)
\* the entry is the synthetic failed JobResult batch_process_async makes of
\* the exception item i raised
SyntheticFor(e, i) ==
    /\ op = "batch_async"
    /\ task[i].out.kind = "raise"
    /\ e = JobResult(ErrorId(i - 1), "failed", FALSE, str(task[i].out.val))

\* a wait that returned did so after a terminal status and one result
\* fetch, with the JobResult of its own job
PolledToTerminal(f) ==
    (f.pc = "done" /\ f.out.kind = "return") =>
        /\ SawTerminal(f)
        /\ f.fetches = 1
        /\ f.out.val.type = "JobResult"
        /\ f.out.val.job_id = f.job

\* C9 as stated: without wait_for_all every element of a returned list is a
\* Job handle and no status query or result fetch was issued; with it every
\* element is the JobResult of a job of that item, polled to a terminal
\* status and resolved.
C9_AsStated ==
    op \in {"batch", "batch_async"} =>
        /\ ~wait_for_all => \A i \in Frames : fr[i] = IdleFrame
        /\ \A i \in Frames : PolledToTerminal(fr[i])
        /\ b.pc = "returned" =>
              \A i \in 1..N :
                  /\ results[i].type = (IF wait_for_all THEN "JobResult" ELSE "Job")
                  /\ BelongsTo(results[i], i)
                  /\ wait_for_all => results[i].job_id \in IssuedIds

\* C9 amended: as stated, except that in a list returned by
\* batch_process_async the element of an item whose processing raised is the
\* synthetic failed JobResult, whatever wait_for_all.
C9_Amended ==
    op \in {"batch", "batch_async"} =>
        /\ ~wait_for_all => \A i \in Frames : fr[i] = IdleFrame
        /\ \A i \in Frames : PolledToTerminal(fr[i])
        /\ b.pc = "returned" =>
              \A i \in 1..N :
                  \/ SyntheticFor(results[i], i)
                  \/ /\ results[i].type = (IF wait_for_all THEN "JobResult" ELSE "Job")
                     /\ BelongsTo(results[i], i)
                     /\ wait_for_all => results[i].job_id \in IssuedIds

\* C9, reached: batch_process_async without wait_for_all has returned a
\* list holding a Job handle and a synthetic failed JobResult
C9_Reached ==
    /\ op = "batch_async" /\ ~wait_for_all /\ b.pc = "returned"
    /\ \E i \in 1..N : SyntheticFor(results[i], i)
    /\ \E i \in 1..N : results[i].type = "Job"

\* what a loop did with the answer to its latest status query
Verdict(f) ==
    IF f.pc \in {"poll", "sleep", "asleep"} THEN "sleep"
    ELSE IF f.pc = "fetch" \/ f.fetches > 0 THEN "fetch"
    ELSE "end"

\* C10: wait_for_result and wait_for_result_async, called for the same job
\* with the same arguments and given the same answers, have after the same
\* number of status queries taken the same way (sleep, fetch or end), and
\* once both have ended they have issued the same status queries and result
\* fetch, slept as often and ended with the same result or the same error;
\* past a sleep their clocks agree.
C10_SameBehaviour ==
    (op = "wait" /\ fr[1].polls = fr[2].polls /\ fr[1].polls > 0) =>
        /\ Verdict(fr[1]) = Verdict(fr[2])
        /\ now[1] = now[2] \/ "sleep" \in {fr[1].pc, fr[2].pc} \/ "asleep" \in {fr[1].pc, fr[2].pc}
        /\ (fr[1].pc = "done" /\ fr[2].pc = "done") =>
              /\ fr[1].fetches = fr[2].fetches
              /\ fr[1].sleeps = fr[2].sleeps
              /\ fr[1].last = fr[2].last
              /\ fr[1].out.kind = fr[2].out.kind
              /\ fr[1].out.val = fr[2].out.val

\* C10, reached: both have ended after a sleep, with a result
C10_Reached ==
    /\ op = "wait"
    /\ fr[1].pc = "done" /\ fr[2].pc = "done"
    /\ fr[1].sleeps > 0 /\ fr[2].sleeps > 0
    /\ fr[1].out.kind = "return" /\ fr[2].out.kind = "return"

\* C10, reached in the client as shipped: both have ended with the error of
\* get_job_status
C10_ReachedShipped ==
    /\ op = "wait" /\ ~doubled
    /\ fr[1].pc = "done" /\ fr[2].pc = "done"
    /\ fr[1].out.kind = "raise" /\ fr[2].out.kind = "raise"


(***************************************************************************)
(* The two batches against each other.                                     *)
(***************************************************************************)
\* what batch_process does with the inputs of the batch_process_async call
\* under way when the service treats every item as it did in that call
SyncTwin ==
    batch_process([i \in 1..N |-> task[i].sub], [i \in 1..N |-> task[i].out],
                  N, max_concurrent, wait_for_all)

\* the items of the batch_process_async call whose processing raised
FailedItems == {i \in 1..N : task[i].out.kind = "raise"}

\* C11 as stated: for the same inputs and the same behaviour of the service,
\* a failing item included, batch_process returns the list that
\* batch_process_async returns.
C11_AsStated ==
    (op = "batch_async" /\ b.pc = "returned") =>
        /\ SyncTwin.l.pc = "returned"
        /\ SyncTwin.r = results

\* C11 amended: when no item fails batch_process returns the list that
\* batch_process_async returns; when an item fails batch_process raises the
\* error of a failing item and returns no list, while batch_process_async
\* returns a list that holds a synthetic failed JobResult for every failing
\* item.
C11_Amended ==
    (op = "batch_async" /\ b.pc = "returned") =>
        IF FailedItems = {} THEN
            /\ SyncTwin.l.pc = "returned"
            /\ SyncTwin.r = results
        ELSE
            /\ SyncTwin.l.pc = "raised"
            /\ SyncTwin.l.err \in {task[i].out : i \in FailedItems}
            /\ Len(results) = N
            /\ \A i \in FailedItems : SyntheticFor(results[i], i)

\* C11, reached: of three items the second failed; batch_process_async
\* returned three entries, batch_process raises
C11_Reached ==
    /\ op = "batch_async" /\ b.pc = "returned" /\ N = 3
    /\ FailedItems = {2}
    /\ SyncTwin.l.pc = "raised"

\* C11, reached without a failure: both return the same three results of
\* finished waits
C11_ReachedAgree ==
    /\ op = "batch_async" /\ b.pc = "returned" /\ N = 3 /\ wait_for_all
    /\ FailedItems = {}
    /\ SyncTwin.r = results


(***************************************************************************)
(* Properties of the error mapping and of the single operations.           *)
(***************************************************************************)
\* the error kind the mapping is specified to give for status code c
\* (NoStatus: the exception carries none)
KindFor(c) ==
    IF c \in {401, 403} THEN "LeapOCRAuthenticationError"
    ELSE IF c = 404 THEN "LeapOCRNotFoundError"
    ELSE IF c = 422 THEN "LeapOCRValidationError"
    ELSE IF c = 429 THEN "LeapOCRRateLimitError"
    ELSE IF c \in 500..599 THEN "LeapOCRServerError"
    ELSE "LeapOCRClientError"

\* C12: _handle_api_error ends for every status code, and for a missing
\* one, by raising one error, and that error is of the kind specified for
\* the code: 401, 403 AuthenticationError, 404 NotFoundError, 422
\* ValidationError, 429 RateLimitError, 500..599 ServerError, anything else
\* the generic LeapOCRClientError.
C12_MappingTotal ==
    (op = "call" /\ call.pc = "done" /\ call.fn = "_handle_api_error") =>
        /\ call.out.kind = "raise"
        /\ call.out.val.cls \in LeapOCRErrors
        /\ call.out.val.cls = KindFor(call.resp.code)

\* C12, reached: the code just past the server range gave the generic error
C12_Reached ==
    /\ op = "call" /\ call.pc = "done" /\ call.fn = "_handle_api_error"
    /\ call.resp.code = 600
    /\ call.out.val.cls = "LeapOCRClientError"


\* a made error has been asked is_retryable()
Asked == op = "call" /\ call.pc = "done" /\ call.fn = "is_retryable"

C14_ServerTypeRetryable ==
    (/\ Asked
     /\ call.out.val.error.cls = "LeapOCRClientError"
     /\ call.out.val.error.error_type = "server_error")
        => call.out.val.retryable

\* C14, reached: such an error was asked
C14_Reached ==
    /\ Asked
    /\ call.out.val.error.cls = "LeapOCRClientError"
    /\ call.out.val.error.error_type = "server_error"


\* the operations of the client that talk to the transport
TransportOps ==
    {"process_url", "process_url_async", "upload_file", "get_job_status", "get_job_result"}

\* one of them has been called and has ended
OpDone == op = "call" /\ call.pc = "done" /\ call.fn \in TransportOps

\* the parts of a message
Parts(msg) == {msg[j] : j \in 1..Len(msg)}

\* C15: a call of process_url, process_url_async, upload_file,
\* get_job_status or get_job_result whose transport request failed with an
\* ApiException of status s raises exactly the error _handle_api_error
\* gives for s; one whose request failed otherwise, or whose byte transfer
\* failed, raises the generic LeapOCRClientError with the original message
\* in its own; and whatever a call raises is of a class of exceptions.py.
C15_Classified ==
    OpDone =>
        /\ call.resp.tag = "ApiException" =>
              /\ call.out = Raise(handle_api_error(call.resp.code))
              /\ call.out.val.cls = KindFor(call.resp.code)
        /\ call.resp.tag = "Exception" =>
              /\ call.out.kind = "raise"
              /\ call.out.val.cls = "LeapOCRClientError"
              /\ Parts(call.resp.error_message) \subseteq Parts(call.out.val.msg)
        /\ (call.resp.tag = "ok" /\ call.transfer # "ok") =>
              /\ call.out.kind = "raise"
              /\ call.out.val.cls = "LeapOCRClientError"
              /\ call.transfer \in Parts(call.out.val.msg)
        /\ call.out.kind = "raise" => call.out.val.cls \in LeapOCRErrors
        /\ call.out.kind \in {"raise", "return"}

\* C15, reached: get_job_result, its request answered 404, raised
\* LeapOCRNotFoundError
C15_Reached ==
    /\ OpDone /\ call.fn = "get_job_result"
    /\ call.resp.tag = "ApiException" /\ call.resp.code = 404
    /\ call.out.val.cls = "LeapOCRNotFoundError"


\* C16: the error a call of a transport operation raises because its
\* request failed with an ApiException of a known status s has
\* status_code = s.
C16_CarriesStatus ==
    (OpDone /\ call.resp.tag = "ApiException" /\ call.resp.code # NoStatus) =>
        /\ call.out.kind = "raise"
        /\ call.out.val.status_code = call.resp.code

\* C16, reached: process_url, its request answered 503, raised
\* LeapOCRServerError
C16_Reached ==
    /\ OpDone /\ call.fn = "process_url"
    /\ call.resp.code = 503
    /\ call.out.val.cls = "LeapOCRServerError"


\* C17: upload_file returns, and then a FileUploadResult for the job the
\* service issued, exactly when the presigned-target request and the byte
\* transfer both succeeded; a PUT answered with a non-success status makes
\* it raise an error of a class of exceptions.py.
C17_UploadChecked ==
    (op = "call" /\ call.pc = "done" /\ call.fn = "upload_file") =>
        /\ call.out.kind = "return" <=> (call.resp.tag = "ok" /\ call.transfer = "ok")
        /\ call.out.kind = "return" =>
              (call.out.val.type = "FileUploadResult" /\ call.out.val.job_id = RealId(1))
        /\ call.transfer = "http_error" =>
              (call.out.kind = "raise" /\ call.out.val.cls \in LeapOCRErrors)

\* C17, reached: the target was handed out, the PUT was refused, upload_file
\* raised
C17_Reached ==
    /\ op = "call" /\ call.pc = "done" /\ call.fn = "upload_file"
    /\ call.resp.tag = "ok" /\ call.transfer = "http_error"
    /\ call.out.kind = "raise"


\* the outcome is a raise of LeapOCRTimeoutError
IsTimeout(out) == out.kind = "raise" /\ out.val.cls = "LeapOCRTimeoutError"

\* C18: no call of a transport operation ends in LeapOCRTimeoutError, a
\* request that timed out included; a wait that ended in it was called with
\* a timeout, had just been answered a non-terminal status and had run for
\* longer than the timeout.
C18_TimeoutOnlyByLoop ==
    /\ OpDone => ~IsTimeout(call.out)
    /\ \A i \in Frames :
          (fr[i].pc = "done" /\ IsTimeout(fr[i].out)) =>
              /\ TimeoutOf(i) # 0
              /\ Clock(i) - fr[i].start > TimeoutOf(i)
              /\ SawStatus(fr[i]) /\ ~SawTerminal(fr[i])
              /\ fr[i].out = Raise(TimeoutError(fr[i].job, TimeoutOf(i)))

\* C18, reached: the status request of get_job_status timed out and the
\* call raised the generic error
C18_Reached ==
    /\ OpDone /\ call.fn = "get_job_status"
    /\ call.resp = RequestTimeout
    /\ call.out.kind = "raise" /\ call.out.val.cls = "LeapOCRClientError"

\* C18, reached with get_job_status doubled: a wait ended in
\* LeapOCRTimeoutError
C18_ReachedLoop ==
    /\ op = "wait" /\ fr[1].pc = "done" /\ IsTimeout(fr[1].out)


\* the requests a wait sent: status queries only, then at most one result
\* fetch, which is the last request of the call
ReadOnly(f) ==
    /\ Len(f.log) = f.polls + f.fetches
    /\ f.fetches <= 1
    /\ \A k \in 1..Len(f.log) :
          f.log[k] = (IF k > f.polls THEN "result" ELSE "status")

\* a wait for the job called after an earlier wait for it ended in
\* LeapOCRTimeoutError
LaterWait(f) == f.round = 2 /\ f.pc = "done"

\* C19: a wait sends the service status queries and at most one result fetch
\* and nothing else, whether it ends in LeapOCRTimeoutError or not, and it
\* leaves the client's record of jobs alone; a wait for the same job called
\* after a timed-out one, whose status query is answered with a terminal
\* status and whose result fetch is answered, returns that answer as the
\* job's JobResult.
C19_TimeoutLeavesJob ==
    /\ \A i \in Frames : ReadOnly(fr[i])
    /\ op = "wait" =>
          /\ jobs = <<0>>
          /\ \A i \in Frames :
                (LaterWait(fr[i]) /\ SawTerminal(fr[i]) /\ fetched.tag = "ok") =>
                    fr[i].out = Return(JobResult(RealId(1), fetched.status,
                                                 fetched.data, fetched.error_message))

\* C19, reached: both waits for the job timed out, the job then completed,
\* and the later waits for the same job returned its result
C19_Reached ==
    /\ op = "wait"
    /\ \A i \in Frames :
          /\ LaterWait(fr[i]) /\ fr[i].last.tag = "ok" /\ fr[i].last.status = "completed"
          /\ fr[i].out.kind = "return" /\ fr[i].out.val.data
          /\ fr[i].log = <<"status", "result">>


\* the iterations of `while True` whose status query a wait has sent: one
\* per sleep it completed (blocking) or began (cooperative), and the one it
\* stands in or ended in
Iterations(f) == f.sleeps + (IF f.pc \in {"idle", "poll", "asleep"} THEN 0 ELSE 1)

C20_ReachedLoop ==
    /\ op = "wait"
    /\ fr[1].pc = "done" /\ fr[1].last = ApiException(503)
    /\ fr[1].out.kind = "raise" /\ fr[1].out.val.cls = "LeapOCRServerError"
    /\ fr[1].log = <<"status">>

\* C20, reached in a wait that went round its loop: three status queries,
\* two sleeps, then the one fetch
C20_ReachedRounds ==
    /\ op = "wait"
    /\ \A i \in Frames :
          fr[i].pc = "done" /\ fr[i].log = <<"status", "status", "status", "result">>


\* validate_job_result has been called
Validated == op = "call" /\ call.pc = "done" /\ call.fn = "validate_job_result"

\* C21 as stated: validate_job_result returns true if and only if the
\* status is completed, error_message is absent (None) and data or pages is
\* populated.
C21_AsStated ==
    Validated =>
        LET jr == call.out.val.job_result
        IN call.out.val.valid =
              (/\ jr.status = Member("completed")
               /\ jr.error_message = "None"
               /\ (jr.data = "full" \/ jr.pages = "full"))

\* C21 amended: validate_job_result returns true if and only if the status
\* is completed, error_message is None or the empty string, and data or
\* pages is non-empty; a processing result with data, a completed result
\* with an error message and a completed result with neither data nor pages
\* are invalid.
C21_Amended ==
    Validated =>
        LET jr == call.out.val.job_result
        IN call.out.val.valid =
              (/\ jr.status = Member("completed")
               /\ jr.error_message \in {"None", "empty"}
               /\ (jr.data = "full" \/ jr.pages = "full"))

\* C21, reached: a completed result with pages only and an empty
\* error_message was validated and found valid
C21_Reached ==
    /\ Validated
    /\ call.out.val.job_result.status = Member("completed")
    /\ call.out.val.job_result.data = "None"
    /\ call.out.val.job_result.pages = "full"
    /\ call.out.val.job_result.error_message = "empty"
    /\ call.out.val.valid


\* a Job, JobStatusInfo or JobResult has been constructed
Constructed == op = "call" /\ call.pc = "done" /\ call.fn = "__post_init__"

\* C22: a Job, JobStatusInfo or JobResult constructed with a status string
\* whose lower-cased form is pending, processing, completed, failed or
\* cancelled holds that JobStatus member; constructed with any other string
\* it holds the string exactly as given.
C22_StatusCoerced ==
    Constructed =>
        LET given == call.out.val.given
            made  == call.out.val.made
        IN /\ made.type \in {"Job", "JobStatusInfo", "JobResult"}
           /\ Lower(given) \in JobStatusValues => made.status = Member(Lower(given))
           /\ Lower(given) \notin JobStatusValues =>
                 made.status = [enum |-> FALSE, s |-> given]

\* C22, reached: a JobStatusInfo was constructed with "Archived", which is
\* no member value in any case, and kept it with its capital letter
C22_Reached ==
    /\ Constructed
    /\ call.out.val.made.type = "JobStatusInfo"
    /\ call.out.val.given = "Archived"
    /\ call.out.val.made.status = [enum |-> FALSE, s |-> "Archived"]

\* C22, reached: a Job constructed with "PENDING" holds JobStatus.PENDING
C22_ReachedMember ==
    /\ Constructed
    /\ call.out.val.made.type = "Job"
    /\ call.out.val.given = "PENDING"
    /\ call.out.val.made.status = Member("pending")


\* get_job_status has been called and the transport answered its request
StatusAnswered ==
    op = "call" /\ call.pc = "done" /\ call.fn = "get_job_status" /\ call.resp.tag = "ok"

\* C23: when the transport answers the status request, get_job_status
\* returns a status record with the job id and the status of the answer.
C23_StatusReturned ==
    StatusAnswered =>
        /\ call.out.kind = "return"
        /\ call.out.val.job_id = RealId(1)
        /\ call.out.val.status = post_init_status(call.resp.status)

\* C23, reached: the transport answered "processing" and get_job_status
\* raised LeapOCRClientError about the TypeError of its return statement
C23_Reached ==
    /\ StatusAnswered /\ call.resp.status = "processing"
    /\ call.out = Raise(Error("LeapOCRClientError",
                              <<"Unexpected error getting job status: ", "TypeError">>))


\* process_document was called on a URL with wait_for_result=true, its
\* submission was accepted, and a status query of its wait was answered with
\* a terminal status
DocTerminal ==
    /\ op = "document" /\ wait_for_result /\ call.via = "process_url"
    /\ call.pc \in {"waiting", "done"}
    /\ SawTerminal(fr[1])

\* C24: process_document on a URL with wait_for_result=true, against a
\* service that answers n non-terminal statuses and then a terminal one, has
\* made one submission, and once the terminal status is observed it goes on
\* to the result fetch: it ends after n+1 status queries, n sleeps and one
\* result fetch, and what it returns is the fetched JobResult.
C24_DocumentWaits ==
    DocTerminal =>
        /\ call.sent = 1
        /\ fr[1].pc \in {"fetch", "done"}
        /\ fr[1].sleeps = fr[1].polls - 1
        /\ fr[1].pc = "done" =>
              /\ fr[1].fetches = 1
              /\ fr[1].log = [k \in 1..(fr[1].polls + 1) |->
                                IF k <= fr[1].polls THEN "status" ELSE "result"]
              /\ fr[1].out.kind = "return" =>
                    fr[1].out.val.type = "JobResult" /\ fr[1].out.val.job_id = RealId(1)
        /\ call.pc = "done" => call.out = fr[1].out

\* C24, reached in the client as shipped: the first status query was
\* answered "completed" and process_document raised without a result fetch
C24_Reached ==
    /\ DocTerminal /\ ~doubled
    /\ call.pc = "done" /\ call.out.kind = "raise"
    /\ fr[1].polls = 1 /\ fr[1].fetches = 0

\* C24 with get_job_status doubled
C24_WithDouble == doubled => C24_DocumentWaits

\* with the double: pending, processing, completed were observed with two
\* sleeps between them, and process_document returned the fetched JobResult
C24_ReachedDouble ==
    /\ DocTerminal /\ doubled /\ call.pc = "done"
    /\ fr[1].polls = 3 /\ fr[1].sleeps = 2 /\ fr[1].fetches = 1
    /\ fr[1].last.status = "completed"
    /\ call.out.kind = "return" /\ call.out.val.type = "JobResult"


\* the wait of frame f has ended after a status query told it the job failed
EndedOnFailed(f) == f.pc = "done" /\ f.last.tag = "ok" /\ f.last.status = "failed"

\* C25: a wait whose status query was answered with the terminal status
\* failed ends by raising an error of the LeapOCRClientError family, not by
\* returning.
C25_FailedJobRaises ==
    \A i \in Frames :
        EndedOnFailed(fr[i]) =>
            fr[i].out.kind = "raise" /\ fr[i].out.val.cls \in LeapOCRErrors

\* C25, reached: wait_for_result observed the status failed, fetched the
\* result and returned it as a JobResult whose status is failed
C25_Reached ==
    /\ op = "wait" /\ EndedOnFailed(fr[1])
    /\ fr[1].fetches = 1
    /\ fr[1].out.kind = "return"
    /\ fr[1].out.val.type = "JobResult" /\ fr[1].out.val.status = Member("failed")

\* C25 in the client as shipped, where every wait raises (C23)
C25_Shipped == ~doubled => C25_FailedJobRaises


\* frame i begins a sleep in this step
Sleeps(i) == i \in DOMAIN fr' /\ fr'[i].sleeps = fr[i].sleeps + 1

\* C26: every sleep of a wait lasts poll_interval as the caller gave it,
\* however many iterations came before: the blocking sleep moves the clock
\* on by poll_interval, and the cooperative one sets its timer to
\* poll_interval after the time it is called at.
C26_FixedInterval ==
    [][\A i \in Frames :
          Sleeps(i) =>
              IF fr'[i].pc = "asleep"
                  THEN fr'[i].wake = now[World(i)] + poll_interval /\ now' = now
                  ELSE now'[World(i)] = now[World(i)] + poll_interval]_vars

\* C26, reached: both waits were called with poll_interval 2 and are in
\* their third iteration, after two sleeps each
C26_Reached ==
    /\ op = "wait" /\ poll_interval = 2
    /\ \A i \in Frames : fr[i].sleeps = 2 /\ fr[i].polls = 3
    /\ now[1] >= 4 /\ now[2] >= 4


\* the wait of frame i is for a job the service issued when item i was
\* submitted
OwnJob(i) == \E k \in 1..Len(jobs) : fr[i].job = RealId(k) /\ jobs[k] = i

\* C27: in process_document with wait_for_result=true and in both batch
\* variants, the wait for item i, whose status queries and result fetch are
\* made with the id the wait holds, holds the id that the submission of item
\* i returned, and the JobResult it returns carries that id.
C27_OwnIdOnly ==
    op \in {"document", "batch", "batch_async"} =>
        \A i \in Frames :
            fr[i].pc # "idle" =>
                /\ OwnJob(i)
                /\ fr[i].out.kind = "return" => fr[i].out.val.job_id = fr[i].job

\* C27, reached in batch_process: the second item's wait has sent a status
\* query for the second job
C27_Reached ==
    /\ op = "batch" /\ Cur = 2
    /\ fr[2].polls >= 1 /\ fr[2].job = RealId(2) /\ jobs[2] = 2

\* C27, reached in batch_process_async: the submission of the first item
\* was refused, so the second and third items were issued jobs 1 and 2, and
\* the waits for them each asked after their own job
C27_ReachedAsync ==
    /\ op = "batch_async"
    /\ jobs = <<2, 3>>
    /\ fr[2].polls >= 1 /\ fr[2].job = RealId(1)
    /\ fr[3].polls >= 1 /\ fr[3].job = RealId(2)

\* C27, reached in process_document: the wait fetched the result of the job
\* its submission made
C27_ReachedDocument ==
    /\ op = "document" /\ call.pc = "done" /\ jobs = <<1>>
    /\ call.out.kind = "return" /\ call.out.val.type = "JobResult"
    /\ call.out.val.job_id = RealId(1)


\* process_document has made its submission
DocSubmitted == op = "document" /\ call.pc \in {"waiting", "done"}

C28_ReachedUpload ==
    /\ DocSubmitted /\ call.via = "upload_file" /\ call.transfer = "ok"
    /\ source \in {[type |-> "io", text |-> <<>>],
                   [type |-> "str", text |-> <<"HTTP://", "example.com/doc.pdf">>]}

\* C28, reached: Path("https://example.com/doc.pdf") went through the upload
C28_ReachedPath ==
    /\ DocSubmitted /\ call.via = "upload_file"
    /\ source = [type |-> "Path", text |-> <<"https://", "example.com/doc.pdf">>]


\* extract_text has been called and has ended
Extracted == op = "extract_text" /\ call.pc = "done" /\ call.fn = "extract_text"

\* the error extract_text raises of its own
ExtractFailed == Error("LeapOCRClientError", <<"Failed to extract text from document">>)

C29_ReachedNoData ==
    /\ Extracted /\ fr[1].out.kind = "return" /\ fr[1].out.val.data = "None"
    /\ call.out = Raise(ExtractFailed)

\* C29, reached in the client as shipped: the submission was accepted and
\* extract_text raised the error of get_job_status
C29_ReachedShipped ==
    /\ Extracted /\ ~doubled /\ fr[1].last.tag = "ok"
    /\ call.out.kind = "raise" /\ call.out # Raise(ExtractFailed)


\* the wait of frame f ended in LeapOCRTimeoutError
TimedOut(f) ==
    f.pc = "done" /\ f.out.kind = "raise" /\ f.out.val.cls = "LeapOCRTimeoutError"

\* the deadline of the wait of frame i has passed
PastDeadline(i) == TimeoutOf(i) # 0 /\ Clock(i) - fr[i].start > TimeoutOf(i)

\* C30: in an iteration the terminal test comes before the deadline test.  A
\* wait whose status query was answered with a terminal status goes on to the
\* result fetch and ends with the outcome of that fetch, never with
\* LeapOCRTimeoutError, whether or not the deadline has passed by then; and a
\* wait that ended in LeapOCRTimeoutError did so past its deadline, right
\* after a status query that was answered with a non-terminal status, having
\* slept once less than it asked.
C30_TerminalTestFirst ==
    \A i \in Frames :
        /\ SawTerminal(fr[i]) =>
              /\ fr[i].pc \in {"fetch", "done"}
              /\ fr[i].pc = "done" => fr[i].fetches = 1 /\ ~TimedOut(fr[i])
        /\ TimedOut(fr[i]) =>
              /\ fr[i].polls >= 1 /\ fr[i].sleeps = fr[i].polls - 1
              /\ SawStatus(fr[i]) /\ ~SawTerminal(fr[i])
              /\ PastDeadline(i)

\* C30, reached in the client as shipped: a status query was answered with a
\* terminal status and the wait raised without fetching the result
C30_Reached ==
    /\ op = "wait" /\ ~doubled
    /\ SawTerminal(fr[1]) /\ fr[1].pc = "done" /\ fr[1].fetches = 0
    /\ fr[1].out.kind = "raise"

\* C30 with get_job_status doubled
C30_WithDouble == doubled => C30_TerminalTestFirst

\* with the double: both waits observed "completed" after their deadline had
\* passed and returned the fetched result
C30_ReachedLate ==
    /\ op = "wait" /\ doubled
    /\ \A i \in Frames :
          /\ PastDeadline(i) /\ SawTerminal(fr[i])
          /\ fr[i].pc = "done" /\ fr[i].out.kind = "return"

\* with the double: a wait timed out right after its second status query,
\* which was answered "processing", having slept once
C30_ReachedTimeout ==
    /\ op = "wait" /\ doubled
    /\ TimedOut(fr[1]) /\ fr[1].polls = 2 /\ fr[1].sleeps = 1
    /\ fr[1].last.status = "processing"


\* the deadline C31 states for the waits of process_document and of a batch:
\* the timeout argument when it is not 0 (0 stands for an unset one too),
\* otherwise options.timeout; 0: no deadline
StatedDeadline == IF timeout # 0 THEN timeout ELSE options_timeout

\* C31: the wait started by process_document or by a batch has the deadline
\* timeout, or options.timeout when timeout is unset or 0.  With a deadline
\* the wait does not go to sleep once more than the deadline has elapsed, and
\* when it ends in LeapOCRTimeoutError the error names that deadline and more
\* than it has elapsed; without one the wait never ends in
\* LeapOCRTimeoutError and returns only after a terminal status.
C31_DeadlineChosen ==
    op \in {"document", "extract_text", "batch", "batch_async"} =>
        \A i \in Frames :
            /\ TimedOut(fr[i]) =>
                  /\ StatedDeadline # 0
                  /\ fr[i].out = Raise(TimeoutError(fr[i].job, StatedDeadline))
                  /\ Clock(i) - fr[i].start > StatedDeadline
            /\ (StatedDeadline # 0 /\ fr[i].pc = "sleep") =>
                  Clock(i) - fr[i].start <= StatedDeadline
            /\ (StatedDeadline = 0 /\ fr[i].pc = "done" /\ fr[i].out.kind = "return") =>
                  SawTerminal(fr[i])

\* C31, reached: process_document was called without timeout and with
\* options.timeout = 1, and its wait ended in LeapOCRTimeoutError
C31_Reached ==
    /\ op = "document" /\ timeout = 0 /\ options_timeout = 1
    /\ TimedOut(fr[1]) /\ call.pc = "done" /\ call.out = fr[1].out

\* C31, reached: timeout = 2 and options.timeout = 1 were both given, and
\* the wait is about to sleep with two time units elapsed, past
\* options.timeout and within timeout
C31_ReachedBoth ==
    /\ op = "document" /\ timeout = 2 /\ options_timeout = 1
    /\ fr[1].pc = "sleep" /\ Clock(1) - fr[1].start = 2

\* C31, reached: no deadline, and the wait is about to sleep again after
\* three status queries, two time units after it began
C31_ReachedNoDeadline ==
    /\ op = "document" /\ timeout = 0 /\ options_timeout = 0
    /\ fr[1].pc = "sleep" /\ fr[1].polls = 3 /\ Clock(1) - fr[1].start >= 2


\* C32: in every wait the result fetch is made at most once, as the last
\* request of the call, and a wait stands before its fetch or has made it
\* only when the status query before it was answered with completed, failed
\* or cancelled: never after pending, processing, an unrecognized status or
\* a failed query.
C32_FetchOnlyAfterTerminal ==
    \A i \in Frames :
        /\ fr[i].fetches <= 1
        /\ (fr[i].pc = "fetch" \/ fr[i].fetches = 1) =>
              /\ fr[i].last.tag = "ok"
              /\ fr[i].last.status \in {"completed", "failed", "cancelled"}
              /\ fr[i].polls >= 1
        /\ \A k \in 1..Len(fr[i].log) :
              fr[i].log[k] = "result" => k = Len(fr[i].log) /\ k > 1 /\ fr[i].log[k - 1] = "status"

\* C32, reached: both waits made their one fetch after a third status query
\* that was answered "cancelled"
C32_Reached ==
    /\ op = "wait"
    /\ \A i \in Frames :
          /\ fr[i].pc = "done" /\ fr[i].fetches = 1 /\ fr[i].polls = 3
          /\ fr[i].last.status = "cancelled"

\* C32, reached: a wait ended past its deadline after the unrecognized
\* status "archived", without a fetch
C32_ReachedNoFetch ==
    /\ op = "wait" /\ TimedOut(fr[1])
    /\ fr[1].last.status = "archived" /\ fr[1].fetches = 0


\* the status of the last answer is none of the five known ones
SawUnknown(f) == f.last.tag = "ok" /\ f.last.status \notin JobStatusValues

\* C33: a wait whose status query was answered with a status outside the
\* five known ones treats it as non-terminal: it does not fetch, and it
\* either sleeps and then stands before its next query or, past its
\* deadline, ends in LeapOCRTimeoutError.
C33_UnknownIsNonTerminal ==
    \A i \in Frames :
        SawUnknown(fr[i]) =>
            /\ fr[i].fetches = 0
            /\ fr[i].pc \in {"sleep", "asleep", "poll", "done"}
            /\ fr[i].pc = "done" => TimedOut(fr[i]) /\ PastDeadline(i)
            /\ fr[i].pc = "sleep" => ~PastDeadline(i)
            /\ fr[i].pc = "poll" => fr[i].sleeps = fr[i].polls

\* C33 with get_job_status doubled
C33_WithDouble == doubled => C33_UnknownIsNonTerminal

\* C33, reached in the client as shipped: the status query was answered
\* "archived" and the wait raised LeapOCRClientError at once
C33_ReachedShipped ==
    /\ op = "wait" /\ ~doubled /\ SawUnknown(fr[1])
    /\ fr[1].pc = "done" /\ fr[1].out.kind = "raise"
    /\ fr[1].out.val.cls = "LeapOCRClientError" /\ fr[1].sleeps = 0

\* with the double: "archived" was observed by both waits, which slept and
\* stand before their second query
C33_Reached ==
    /\ op = "wait" /\ doubled
    /\ \A i \in Frames :
          /\ SawUnknown(fr[i]) /\ fr[i].pc = "poll"
          /\ fr[i].polls = 1 /\ fr[i].sleeps = 1

\* with the double: after "archived" the deadline passed and the wait ended in
\* LeapOCRTimeoutError
C33_ReachedDeadline ==
    /\ op = "wait" /\ doubled /\ SawUnknown(fr[1]) /\ TimedOut(fr[1])


\* a status query of the wait of frame f was answered failed or cancelled
SawFailedOrCancelled(f) == f.last.tag = "ok" /\ f.last.status \in {"failed", "cancelled"}

\* C34: a wait that observed the terminal status failed or cancelled goes on
\* to the result fetch, and ends with what get_job_result makes of the
\* answer to that fetch: when the fetch is answered, the JobResult of the
\* answer with the status the answer reports, whatever it is.
C34_ResultUnchanged ==
    op = "wait" =>
        \A i \in Frames :
            SawFailedOrCancelled(fr[i]) =>
                /\ fr[i].pc \in {"fetch", "done"}
                /\ fr[i].pc = "done" =>
                      /\ fr[i].fetches = 1
                      /\ fr[i].out = get_job_result(fetched, fr[i].job)
                      /\ fetched.tag = "ok" =>
                            fr[i].out = Return(JobResult(fr[i].job, fetched.status,
                                                         fetched.data, fetched.error_message))

\* C34 with get_job_status doubled
C34_WithDouble == doubled => C34_ResultUnchanged

\* C34, reached in the client as shipped: the status query was answered
\* "failed" and the wait raised without fetching the result
C34_ReachedShipped ==
    /\ op = "wait" /\ ~doubled /\ SawFailedOrCancelled(fr[1])
    /\ fr[1].pc = "done" /\ fr[1].fetches = 0 /\ fr[1].out.kind = "raise"

\* with the double: the status "cancelled" was observed, the result endpoint
\* reported "completed", and both waits returned that JobResult
C34_ReachedDouble ==
    /\ op = "wait" /\ doubled
    /\ \A i \in Frames :
          /\ fr[i].last.tag = "ok" /\ fr[i].last.status = "cancelled"
          /\ fr[i].out = Return(JobResult(RealId(1), "completed", TRUE, <<>>))


\* the last status query of the wait of frame f raised
StatusRaised(f) == f.polls >= 1 /\ GetStatus(f.last, f.job).kind = "raise"

\* C35: a wait whose status query raised has ended with the error that
\* query raised, after that query: no sleep and no result fetch followed it,
\* and the error is not LeapOCRTimeoutError.
C35_StatusErrorEndsWait ==
    \A i \in Frames :
        StatusRaised(fr[i]) =>
            /\ fr[i].pc = "done"
            /\ fr[i].out = GetStatus(fr[i].last, fr[i].job)
            /\ ~TimedOut(fr[i])
            /\ fr[i].fetches = 0
            /\ fr[i].sleeps = fr[i].polls - 1
            /\ fr[i].log = [k \in 1..fr[i].polls |-> "status"]

\* C35, reached: the status query of both waits was answered 404 and both
\* ended with LeapOCRNotFoundError, although a deadline was set
C35_Reached ==
    /\ op = "wait" /\ timeout # 0
    /\ \A i \in Frames :
          /\ fr[i].last = ApiException(404)
          /\ fr[i].out.kind = "raise" /\ fr[i].out.val.cls = "LeapOCRNotFoundError"
          /\ fr[i].polls = 1 /\ fr[i].sleeps = 0


(***************************************************************************)
(* batch_process_async alone, run by an event loop that runs every task    *)
(* that is ready and a service that answers every request: each step of    *)
(* the call that stays possible is taken.                                  *)
(***************************************************************************)
AsyncBatchInit == Init /\ op = "batch_async"

AsyncBatchNext ==
    \/ AsyncBatchCall
    \/ \E i \in DOMAIN task : TaskStart(i)
    \/ \E i \in DOMAIN task : TaskWake(i)
    \/ \E i \in DOMAIN task : TaskSubmit(i)
    \/ \E i \in DOMAIN task : TaskWaitEnd(i)
    \/ \E i \in DOMAIN task : TaskExit(i)
    \/ \E i \in Frames : AsyncPoll(i)
    \/ \E i \in Frames : AsyncFetch(i)
    \/ \E i \in Frames : AsyncSleep(i)
    \/ \E i \in Frames : AsyncWake(i)
    \/ LoopIdle
    \/ AsyncBatchReturn

AsyncBatchFairness ==
    /\ WF_vars(AsyncBatchCall)
    /\ WF_vars(LoopIdle)
    /\ WF_vars(AsyncBatchReturn)
    /\ \A i \in 1..MaxSources :
          /\ WF_vars(i \in DOMAIN task /\ TaskStart(i))
          /\ WF_vars(i \in DOMAIN task /\ TaskWake(i))
          /\ WF_vars(i \in DOMAIN task /\ TaskSubmit(i))
          /\ WF_vars(i \in DOMAIN task /\ TaskWaitEnd(i))
          /\ WF_vars(i \in DOMAIN task /\ TaskExit(i))
          /\ WF_vars(i \in Frames /\ AsyncPoll(i))
          /\ WF_vars(i \in Frames /\ AsyncFetch(i))
          /\ WF_vars(i \in Frames /\ AsyncSleep(i))
          /\ WF_vars(i \in Frames /\ AsyncWake(i))

AsyncBatchSpec == AsyncBatchInit /\ [][AsyncBatchNext]_vars /\ AsyncBatchFairness

\* an item whose own processing does not terminate within the model: its
\* wait stands before a status query beyond the MaxPolls the model follows
Unending == \E i \in Frames : fr[i].pc = "poll" /\ fr[i].polls >= MaxPolls

\* item i has acquired its permit
Acquired(i) == i \in DOMAIN task /\ task[i].pc \notin {"new", "blocked"}

\* when batch_process_async has returned every item has been submitted, is
\* finished and has its result, every permit is back, and no source has
\* two jobs
AllProcessedOnce ==
    b.pc = "returned" =>
        /\ \A i \in DOMAIN task : task[i].pc = "finished" /\ task[i].sub # Pending
        /\ Len(results) = N
        /\ sem = max_concurrent
        /\ \A j, k \in DOMAIN jobs : jobs[j] = jobs[k] => j = k

\* C36: unless an item's own processing does not terminate, every item of
\* batch_process_async eventually acquires a permit and the call eventually
\* returns, every source having been processed exactly once.
C36_BatchAsyncReturns ==
    /\ (b.pc = "call") ~> (b.pc = "returned" \/ Unending)
    /\ \A i \in 1..MaxSources :
          (b.pc = "gather" /\ i \in DOMAIN task) ~> (Acquired(i) \/ Unending)
    /\ []AllProcessedOnce

\* C36, reached: a batch of MaxSources sources under a cap of 1 has returned
\* the fetched result of every source
C36_Reached ==
    /\ op = "batch_async" /\ b.pc = "returned"
    /\ N = MaxSources /\ max_concurrent = 1 /\ wait_for_all
    /\ \A i \in 1..N : results[i].type = "JobResult" /\ ~SyntheticFor(results[i], i)

\* C36, reached: two items wait for the permit the first one holds while it
\* sleeps
C36_ReachedBlocked ==
    /\ op = "batch_async" /\ N = 3 /\ max_concurrent = 1
    /\ fr[1].pc = "asleep" /\ task[2].pc = "blocked" /\ task[3].pc = "blocked"


\* C37: in batch_process with wait_for_all the only wait in progress is the
\* one for the job the inner loop stands at, entered after the waits for the
\* group's earlier jobs have returned their results; a wait ends with
\* LeapOCRTimeoutError only when more than the timeout has passed since its
\* own start and goes on to sleep when not; and once a wait's timeout has
\* left batch_process no wait is in progress and the group's later jobs
\* have no result.
C37_SequentialWaits ==
    op = "batch" =>
        /\ \A i \in Frames :
              fr[i].pc # "idle" =>
                  /\ wait_for_all /\ b.pc = "wait" /\ i = Cur
                  /\ fr[i].job = b.batch_jobs[b.k + 1].id
                  /\ Len(b.batch_results) = b.k
                  /\ \A j \in 1..b.k : b.batch_results[j].job_id = b.batch_jobs[j].id
                  /\ fr[i].start <= Clock(i)
                  /\ TimedOut(fr[i]) => Clock(i) - fr[i].start > TimeoutOf(i)
                  /\ fr[i].pc = "sleep" =>
                        (TimeoutOf(i) = 0 \/ Clock(i) - fr[i].start <= TimeoutOf(i))
        /\ (b.pc = "raised" /\ b.err.kind = "raise" /\ Len(b.batch_jobs) > b.k) =>
              /\ \A i \in Frames : fr[i].pc = "idle"
              /\ Len(b.batch_results) = b.k
              /\ Len(results) = b.i

\* C37, reached: the wait for the second job of a group, begun when the
\* first had taken the whole timeout since the batch began, has not timed
\* out after its status query
C37_Reached ==
    /\ op = "batch" /\ b.pc = "wait" /\ b.k = 1
    /\ TimeoutOf(Cur) # 0 /\ fr[Cur].start >= TimeoutOf(Cur)
    /\ fr[Cur].pc = "sleep" /\ Clock(Cur) > TimeoutOf(Cur)

\* C37, reached: the wait for the first job of a group of two timed out and
\* batch_process raised; the second job was never waited for
C37_ReachedTimeout ==
    /\ op = "batch" /\ b.pc = "raised" /\ b.k = 0 /\ Len(b.batch_jobs) = 2
    /\ b.err.kind = "raise" /\ b.err.val.cls = "LeapOCRTimeoutError"
    /\ b.batch_results = <<>>


\* upload_file was called and has ended
Uploaded == op = "call" /\ call.pc = "done" /\ call.fn = "upload_file"

\* C38: upload_file asks for the presigned target first, reads the file
\* after it and transfers the bytes last.  When the target was granted and
\* the read or the transfer then fails, the call raises LeapOCRClientError
\* right after the failing step, with no further request, the job the
\* service created for the target exists, and the error is the message of
\* the failure alone, without the job's id.
C38_JobLeftBehind ==
    Uploaded =>
        /\ call.upload \in {<<"presign">>, <<"presign", "read">>, <<"presign", "read", "put">>}
        /\ (call.upload = <<"presign">>) <=> (call.resp.tag # "ok")
        /\ (jobs = <<1>>) <=> (call.resp.tag = "ok")
        /\ (call.resp.tag = "ok" /\ call.transfer # "ok") =>
              /\ call.out = Raise(Error("LeapOCRClientError",
                                        <<"Unexpected error uploading file: ", call.transfer>>))
              /\ call.sent = 1
              /\ call.upload = (IF call.transfer = "unreadable"
                                   THEN <<"presign", "read">>
                                   ELSE <<"presign", "read", "put">>)
              /\ jobs = <<1>>
        /\ (call.resp.tag = "ok" /\ call.transfer = "ok") =>
              call.out.kind = "return" /\ call.out.val.job_id = RealId(1)

\* C38, reached: the target was granted, the file could not be read, the
\* call raised and the job exists
C38_Reached ==
    /\ Uploaded /\ call.resp.tag = "ok" /\ call.transfer = "unreadable"
    /\ call.out.kind = "raise" /\ jobs = <<1>>

\* C38, reached: the same with a PUT answered with an error status
C38_ReachedPut ==
    /\ Uploaded /\ call.resp.tag = "ok" /\ call.transfer = "http_error"
    /\ call.out.kind = "raise" /\ jobs = <<1>> /\ call.upload[3] = "put"


\* one of the two classifiers was called with an error of status
\* call.first.code and has ended
Classified(fn) == op = "call" /\ call.pc = "done" /\ call.fn = fn

\* C39: for every status an error can carry, and for none, the error
\* map_exception returns and the error _handle_api_error raises are of the
\* same class, and with it of the same error_type and the same answer of
\* is_retryable().
C39_ClassifiersAgree ==
    /\ Classified("map_exception") =>
          LET e == handle_api_error(call.first.code)
          IN /\ call.out.kind = "return"
             /\ call.out.val.cls = e.cls
             /\ call.out.val.error_type = e.error_type
             /\ is_retryable(call.out.val) = is_retryable(e)
    /\ Classified("_handle_api_error") =>
          LET e == map_exception(call.first.code)
          IN /\ call.out.kind = "raise"
             /\ call.out.val.cls = e.cls
             /\ call.out.val.error_type = e.error_type
             /\ is_retryable(call.out.val) = is_retryable(e)

\* C39, reached: map_exception has returned LeapOCRAuthenticationError for
\* a 403
C39_Reached ==
    /\ Classified("map_exception") /\ call.first.code = 403
    /\ call.out.val.cls = "LeapOCRAuthenticationError"

\* C39, reached: the two ends of the server range, and the missing status
C39_ReachedEdges ==
    /\ Classified("map_exception")
    /\ \/ call.first.code = 599 /\ call.out.val.cls = "LeapOCRServerError"
       \/ call.first.code = 600 /\ call.out.val.cls = "LeapOCRClientError"
       \/ call.first.code = NoStatus /\ call.out.val.cls = "LeapOCRClientError"

====
